---- MODULE Spec2Model ----
(***************************************************************************)
(* webToMd backend: the URL validator (app/utils/validators.py), the       *)
(* per-URL scraper and the multi-page crawl (app/core/scraper.py), the     *)
(* result cache (app/utils/cache.py) and the /scrape route                 *)
(* (app/api/routes.py).                                                    *)
(*                                                                         *)
(* A Python str is a TLA+ string; character i of s is SubSeq(s, i, i).     *)
(***************************************************************************)
EXTENDS Integers, Sequences, FiniteSets, TLC

(***************************************************************************)
(* Characters and strings                                                  *)
(***************************************************************************)

\* U+0000. A TLA+ string cannot hold it; the model writes it with the
\* form-feed escape, and no input of the model holds a form feed itself.
NUL == "\f"

\* Stands for U+FFFD (what unquote gives for a byte that is not UTF-8) and
\* for U+0060, which a TLA+ string cannot hold. No input of the model encodes
\* either.
Replacement == "?"

\* ord(c) < 32 within the model's alphabet.
ControlChars == {NUL, "\t", "\n", "\r"}

\* What str.strip() removes, among the characters left after the control
\* filter of sanitize_input.
Whitespace == {" ", "\t", "\n", "\r"}

Digits == "0123456789"
LowerAlpha == "abcdefghijklmnopqrstuvwxyz"
UpperAlpha == "ABCDEFGHIJKLMNOPQRSTUVWXYZ"
HexLower == "0123456789abcdef"
HexUpper == "0123456789ABCDEF"

\* The printable ASCII characters U+0020..U+005F and U+0061..U+007E in code
\* order.
PrintableLow == " !\"#$%&'()*+,-./0123456789:;<=>?@ABCDEFGHIJKLMNOPQRSTUVWXYZ[\\]^_"
PrintableHigh == "abcdefghijklmnopqrstuvwxyz{|}~"

CharAt(s, i) == SubSeq(s, i, i)

InStr(c, chars) == \E k \in 1..Len(chars) : CharAt(chars, k) = c

PosIn(c, chars) == CHOOSE k \in 1..Len(chars) : CharAt(chars, k) = c

AllIn(s, chars) == \A i \in 1..Len(s) : InStr(CharAt(s, i), chars)

StartsWith(s, p) == Len(p) <= Len(s) /\ SubSeq(s, 1, Len(p)) = p

EndsWith(s, p) == Len(p) <= Len(s) /\ SubSeq(s, Len(s) - Len(p) + 1, Len(s)) = p

OccursAt(s, p, i) == i >= 1 /\ i + Len(p) - 1 <= Len(s) /\ SubSeq(s, i, i + Len(p) - 1) = p

Contains(s, p) == \E i \in 1..Len(s) : OccursAt(s, p, i)

Count(s, c) == Cardinality({i \in 1..Len(s) : CharAt(s, i) = c})

\* The first index in lo..hi holding one of delims, Len(s) + 1 when there is
\* none; by halves so that the depth stays logarithmic.
RECURSIVE FirstIn(_, _, _, _)
FirstIn(s, delims, lo, hi) ==
    IF lo > hi THEN Len(s) + 1
    ELSE IF lo = hi THEN (IF CharAt(s, lo) \in delims THEN lo ELSE Len(s) + 1)
    ELSE LET m == (lo + hi) \div 2
             left == FirstIn(s, delims, lo, m)
         IN  IF left <= Len(s) THEN left ELSE FirstIn(s, delims, m + 1, hi)

\* str.find for a set of delimiters, from index i on: the first index
\* holding one of them, Len(s) + 1 when there is none.
FindFirst(s, delims, i) == FirstIn(s, delims, i, Len(s))

\* The last index in lo..hi holding c, 0 when there is none.
RECURSIVE LastIn(_, _, _, _)
LastIn(s, c, lo, hi) ==
    IF lo > hi THEN 0
    ELSE IF lo = hi THEN (IF CharAt(s, lo) = c THEN lo ELSE 0)
    ELSE LET m == (lo + hi) \div 2
             right == LastIn(s, c, m + 1, hi)
         IN  IF right > 0 THEN right ELSE LastIn(s, c, lo, m)

\* str.rfind up to index i: the last index holding c, 0 when there is none.
FindLast(s, c, i) == LastIn(s, c, 1, i)

LowerChar(c) == IF InStr(c, UpperAlpha) THEN CharAt(LowerAlpha, PosIn(c, UpperAlpha)) ELSE c

\* str.lower(), by halves so that the depth stays logarithmic.
RECURSIVE LowerStr(_)
LowerStr(s) ==
    IF Len(s) = 0 THEN ""
    ELSE IF Len(s) = 1 THEN LowerChar(s)
    ELSE LET h == Len(s) \div 2
         IN  LowerStr(SubSeq(s, 1, h)) \o LowerStr(SubSeq(s, h + 1, Len(s)))

\* s * n.
RECURSIVE Repeat(_, _)
Repeat(s, n) ==
    IF n <= 0 THEN ""
    ELSE IF n = 1 THEN s
    ELSE LET h == n \div 2 IN Repeat(s, h) \o Repeat(s, n - h)

\* int(s) for a string of decimal digits.
RECURSIVE DecimalValue(_)
DecimalValue(s) ==
    IF Len(s) = 0 THEN 0
    ELSE 10 * DecimalValue(SubSeq(s, 1, Len(s) - 1)) + (PosIn(CharAt(s, Len(s)), Digits) - 1)

\* A regular expression's \w, on ASCII.
IsWordChar(c) == InStr(c, LowerAlpha) \/ InStr(c, UpperAlpha) \/ InStr(c, Digits) \/ c = "_"

(***************************************************************************)
(* validators.py: sanitize_input                                           *)
(***************************************************************************)

\* str.replace(c, '') and the ''.join(char for char in s if ...) filter.
RECURSIVE RemoveChars(_, _)
RemoveChars(s, drop) ==
    IF Len(s) = 0 THEN ""
    ELSE IF Len(s) = 1 THEN (IF s \in drop THEN "" ELSE s)
    ELSE LET h == Len(s) \div 2
         IN  RemoveChars(SubSeq(s, 1, h), drop) \o RemoveChars(SubSeq(s, h + 1, Len(s)), drop)

IsHex(c) == InStr(c, HexLower) \/ InStr(c, HexUpper)

HexVal(c) == IF InStr(c, HexLower) THEN PosIn(c, HexLower) - 1 ELSE PosIn(c, HexUpper) - 1

\* chr(code) for one decoded byte. Every control character below U+0020
\* other than tab, LF and CR is written NUL: after decoding, the only thing
\* that reads it is the control filter, which drops them all alike.
Chr(code) ==
    IF code = 9 THEN "\t"
    ELSE IF code = 10 THEN "\n"
    ELSE IF code = 13 THEN "\r"
    ELSE IF code < 32 THEN NUL
    ELSE IF code < 96 THEN CharAt(PrintableLow, code - 31)
    ELSE IF code > 96 /\ code < 127 THEN CharAt(PrintableHigh, code - 96)
    ELSE Replacement

\* A percent escape starts at i: '%' and two hex digits.
IsEscape(s, i) ==
    /\ i >= 1
    /\ i + 2 <= Len(s)
    /\ CharAt(s, i) = "%"
    /\ IsHex(CharAt(s, i + 1))
    /\ IsHex(CharAt(s, i + 2))

\* What position i of s contributes to unquote(s). A '%' is no hex digit, so
\* an escape never starts inside another one.
UnquoteAt(s, i) ==
    IF IsEscape(s, i) THEN Chr(16 * HexVal(CharAt(s, i + 1)) + HexVal(CharAt(s, i + 2)))
    ELSE IF IsEscape(s, i - 1) \/ IsEscape(s, i - 2) THEN ""
    ELSE CharAt(s, i)

RECURSIVE UnquoteRange(_, _, _)
UnquoteRange(s, lo, hi) ==
    IF lo > hi THEN ""
    ELSE IF lo = hi THEN UnquoteAt(s, lo)
    ELSE LET m == (lo + hi) \div 2
         IN  UnquoteRange(s, lo, m) \o UnquoteRange(s, m + 1, hi)

\* urllib.parse.unquote: one pass of percent-decoding.
unquote(s) == UnquoteRange(s, 1, Len(s))

\* str.strip().
Strip(s) ==
    LET kept == {CharAt(s, i) : i \in 1..Len(s)} \ Whitespace
        first == FindFirst(s, kept, 1)
        RECURSIVE LastKept(_)
        LastKept(i) == IF CharAt(s, i) \in Whitespace THEN LastKept(i - 1) ELSE i
    IN  IF first > Len(s) THEN "" ELSE SubSeq(s, first, LastKept(Len(s)))

sanitize_input(input_string) ==
    IF input_string = "" THEN ""
    ELSE LET no_nul == RemoveChars(input_string, {NUL})
             decoded == unquote(no_nul)
             no_control == RemoveChars(decoded, ControlChars \ {"\t", "\n", "\r"})
         IN  Strip(no_control)

(***************************************************************************)
(* validators.py: contains_sql_injection                                   *)
(***************************************************************************)

\* The alternatives of SQL_INJECTION_PATTERNS[0], lower-cased: the patterns
\* are searched with re.IGNORECASE, which the model applies by lower-casing
\* the subject once.
SQL_KEYWORDS ==
    {"select", "insert", "update", "delete", "drop", "create", "alter",
     "exec", "execute", "union", "declare"}

\* \bw\b matches at position i of t, for a w made of word characters.
WordAt(t, w, i) ==
    /\ OccursAt(t, w, i)
    /\ (i = 1 \/ ~IsWordChar(CharAt(t, i - 1)))
    /\ (i + Len(w) - 1 = Len(t) \/ ~IsWordChar(CharAt(t, i + Len(w))))

HasWord(t, w) == \E i \in 1..Len(t) : WordAt(t, w, i)

\* \bw\b.*=.* : the word, then an '=' later on the same line ('.' matches
\* everything but a line feed).
WordThenEquals(t, w) ==
    \E i \in 1..Len(t) :
        /\ WordAt(t, w, i)
        /\ \E j \in (i + Len(w))..Len(t) :
               /\ CharAt(t, j) = "="
               /\ \A k \in (i + Len(w))..(j - 1) : CharAt(t, k) # "\n"

\* r"(\b(SELECT|INSERT|...|DECLARE)\b)"
MatchesKeywordPattern(t) == \E w \in SQL_KEYWORDS : HasWord(t, w)

\* r"(--|;|/\*|\*/|xp_|sp_)"
MatchesCommentPattern(t) == \E tok \in {"--", ";", "/*", "*/", "xp_", "sp_"} : Contains(t, tok)

\* r"(\bOR\b.*=.*|\bAND\b.*=.*)"
MatchesBooleanPattern(t) == WordThenEquals(t, "or") \/ WordThenEquals(t, "and")

\* r"('|(\-\-)|(;)|(\|\|)|(\*))"
MatchesQuotePattern(t) == \E tok \in {"'", "--", ";", "||", "*"} : Contains(t, tok)

\* r"(\bSCRIPT\b|<script|javascript:)"
MatchesScriptPattern(t) == HasWord(t, "script") \/ Contains(t, "<script") \/ Contains(t, "javascript:")

SQL_INJECTION_PATTERNS(t) ==
    \/ MatchesKeywordPattern(t)
    \/ MatchesCommentPattern(t)
    \/ MatchesBooleanPattern(t)
    \/ MatchesQuotePattern(t)
    \/ MatchesScriptPattern(t)

contains_sql_injection(input_string) ==
    IF input_string = "" THEN FALSE
    ELSE SQL_INJECTION_PATTERNS(LowerStr(input_string))

(***************************************************************************)
(* urllib.parse.urlparse, as far as is_valid_url and the scraper read it   *)
(***************************************************************************)

SchemeChars == LowerAlpha \o UpperAlpha \o Digits \o "+-."

\* urlparse(url): the scheme is what precedes the first ':' when that is a
\* letter followed by scheme characters; the netloc is what follows '//' up
\* to the first '/', '?' or '#'. (urlparse also drops tab, CR and LF, which
\* no URL reaching it in the model holds.)
urlparse(url) ==
    LET colon == FindFirst(url, {":"}, 1)
        has_scheme ==
            /\ colon > 1
            /\ colon <= Len(url)
            /\ InStr(CharAt(url, 1), LowerAlpha \o UpperAlpha)
            /\ AllIn(SubSeq(url, 1, colon - 1), SchemeChars)
        rest == IF has_scheme THEN SubSeq(url, colon + 1, Len(url)) ELSE url
        stop == FindFirst(rest, {"/", "?", "#"}, 3)
    IN  [scheme |-> IF has_scheme THEN LowerStr(SubSeq(url, 1, colon - 1)) ELSE "",
         netloc |-> IF StartsWith(rest, "//") THEN SubSeq(rest, 3, stop - 1) ELSE "",
         path   |-> IF StartsWith(rest, "//") THEN SubSeq(rest, stop, Len(rest)) ELSE rest]

\* validators.py get_domain
get_domain(url) == urlparse(url).netloc

(***************************************************************************)
(* The validators library's url(), which is_valid_url calls: the grammar   *)
(* of its URL pattern (scheme, optional userinfo, host, optional port,     *)
(* path, query, fragment).                                                 *)
(***************************************************************************)

UserinfoChars == LowerAlpha \o UpperAlpha \o Digits \o "-._~%!$&'()*+,;=:"
PathChars == UserinfoChars \o "@/"
LabelChars == LowerAlpha \o Digits \o "-"

\* str.split(sep) as a sequence of strings.
RECURSIVE Split(_, _)
Split(s, sep) ==
    LET k == FindFirst(s, {sep}, 1)
    IN  IF k > Len(s) THEN <<s>>
        ELSE <<SubSeq(s, 1, k - 1)>> \o Split(SubSeq(s, k + 1, Len(s)), sep)

IsOctet(s) == Len(s) \in 1..3 /\ AllIn(s, Digits) /\ DecimalValue(s) <= 255

IsIPv4(h) ==
    LET parts == Split(h, ".")
    IN  Len(parts) = 4 /\ \A i \in 1..4 : IsOctet(parts[i])

IsLabel(l) ==
    /\ Len(l) >= 1
    /\ AllIn(l, LabelChars)
    /\ CharAt(l, 1) # "-"
    /\ CharAt(l, Len(l)) # "-"

\* A host name: labels separated by dots, the last one a top-level domain
\* of two or more letters.
IsDomain(h) ==
    LET parts == Split(LowerStr(h), ".")
        tld == parts[Len(parts)]
    IN  /\ Len(parts) >= 2
        /\ \A i \in 1..Len(parts) : IsLabel(parts[i])
        /\ Len(tld) >= 2
        /\ AllIn(tld, LowerAlpha)

\* An IPv6 address between brackets: groups of up to four hex digits
\* separated by ':', with at most one '::'.
IsIPv6(a) ==
    LET groups == Split(a, ":")
        empties == {i \in 1..Len(groups) : groups[i] = ""}
        inner == {i \in empties : i > 1 /\ i < Len(groups)}
    IN  /\ Len(groups) \in 3..8
        /\ \A i \in 1..Len(groups) : Len(groups[i]) <= 4 /\ AllIn(groups[i], HexLower \o HexUpper)
        /\ Cardinality(inner) <= 1
        /\ (1 \in empties => 2 \in empties)
        /\ (Len(groups) \in empties => (Len(groups) - 1) \in empties)
        /\ (Cardinality(inner) = 0 => Len(groups) = 8 /\ empties = {})

IsHostName(h) == LowerStr(h) = "localhost" \/ IsIPv4(h) \/ IsDomain(h)

IsPort(p) == Len(p) \in 2..5 /\ AllIn(p, Digits)

\* host, or host:port.
IsHostPort(hp) ==
    IF StartsWith(hp, "[")
    THEN LET close == FindFirst(hp, {"]"}, 1)
             after == SubSeq(hp, close + 1, Len(hp))
         IN  /\ close <= Len(hp)
             /\ IsIPv6(SubSeq(hp, 2, close - 1))
             /\ (after = "" \/ (StartsWith(after, ":") /\ IsPort(SubSeq(after, 2, Len(after)))))
    ELSE LET colon == FindLast(hp, ":", Len(hp))
         IN  IF colon = 0 THEN IsHostName(hp)
             ELSE IsHostName(SubSeq(hp, 1, colon - 1)) /\ IsPort(SubSeq(hp, colon + 1, Len(hp)))

IsAuthority(a) ==
    LET at == FindLast(a, "@", Len(a))
        userinfo == SubSeq(a, 1, at - 1)
    IN  IF at = 0 THEN IsHostPort(a)
        ELSE /\ Len(userinfo) >= 1
             /\ AllIn(userinfo, UserinfoChars)
             /\ IsHostPort(SubSeq(a, at + 1, Len(a)))

\* path, ?query and #fragment: the path of path characters, the query and
\* the fragment free of white space.
IsPathQueryFragment(t) ==
    LET stop == FindFirst(t, {"?", "#"}, 1)
        tail == SubSeq(t, stop, Len(t))
    IN  /\ AllIn(SubSeq(t, 1, stop - 1), PathChars)
        /\ \A i \in 1..Len(tail) : CharAt(tail, i) \notin Whitespace \cup ControlChars

validators_url(value) ==
    LET lowered == LowerStr(SubSeq(value, 1, 8))
        skip == IF StartsWith(lowered, "http://") THEN 7
                ELSE IF StartsWith(lowered, "https://") THEN 8
                ELSE IF StartsWith(lowered, "ftp://") THEN 6
                ELSE 0
        rest == SubSeq(value, skip + 1, Len(value))
        stop == FindFirst(rest, {"/", "?", "#"}, 1)
    IN  /\ skip > 0
        /\ IsAuthority(SubSeq(rest, 1, stop - 1))
        /\ IsPathQueryFragment(SubSeq(rest, stop, Len(rest)))

(***************************************************************************)
(* validators.py: is_valid_url, validate_and_sanitize_url, normalize_url   *)
(***************************************************************************)

MaxUrlLength == 2048
MinUrlLength == 10
MinNetlocLength == 3

blocked_hosts == {"localhost", "127.0.0.1", "0.0.0.0", "::1"}

\* re.match(r'^(10\.|172\.(1[6-9]|2[0-9]|3[01])\.|192\.168\.)', netloc)
MatchesPrivateRange(netloc) ==
    \/ StartsWith(netloc, "10.")
    \/ /\ StartsWith(netloc, "172.")
       /\ CharAt(netloc, 7) = "."
       /\ \/ CharAt(netloc, 5) = "1" /\ InStr(CharAt(netloc, 6), "6789")
          \/ CharAt(netloc, 5) = "2" /\ InStr(CharAt(netloc, 6), Digits)
          \/ CharAt(netloc, 5) = "3" /\ InStr(CharAt(netloc, 6), "01")
    \/ StartsWith(netloc, "192.168.")

\* is_valid_url with the maximum-length check left out.
IsValidUrlUnbounded(url) ==
    LET parsed == urlparse(url)
    IN  IF url = "" THEN FALSE
        ELSE IF Len(url) < MinUrlLength THEN FALSE
        ELSE IF ~validators_url(url) THEN FALSE
        ELSE IF parsed.scheme \notin {"http", "https"} THEN FALSE
        ELSE IF parsed.netloc = "" \/ Len(parsed.netloc) < MinNetlocLength THEN FALSE
        ELSE IF LowerStr(parsed.netloc) \in blocked_hosts THEN FALSE
        ELSE IF MatchesPrivateRange(parsed.netloc) THEN FALSE
        ELSE TRUE

is_valid_url(url) ==
    LET parsed == urlparse(url)
    IN  IF url = "" THEN FALSE
        ELSE IF Len(url) > MaxUrlLength THEN FALSE
        ELSE IF Len(url) < MinUrlLength THEN FALSE
        ELSE IF ~validators_url(url) THEN FALSE
        ELSE IF parsed.scheme \notin {"http", "https"} THEN FALSE
        ELSE IF parsed.netloc = "" \/ Len(parsed.netloc) < MinNetlocLength THEN FALSE
        ELSE IF LowerStr(parsed.netloc) \in blocked_hosts THEN FALSE
        ELSE IF MatchesPrivateRange(parsed.netloc) THEN FALSE
        ELSE TRUE

HasHttpScheme(url) == StartsWith(url, "http://") \/ StartsWith(url, "https://")

\* A slip in the scheme that is added: 'http://' for 'https://'.
AddSchemePlainHttp(sanitized) ==
    IF HasHttpScheme(sanitized) THEN sanitized ELSE "http://" \o sanitized

\* if not sanitized_url.startswith(('http://', 'https://')):
\*     sanitized_url = 'https://' + sanitized_url
AddScheme(sanitized) ==
    IF HasHttpScheme(sanitized) THEN sanitized ELSE "https://" \o sanitized

RequiredError == "URL is required"
ProhibitedError == "Invalid URL: contains prohibited characters or patterns"
FormatError == "Invalid URL format"

\* The format check made before the pattern check.
ValidateFormatFirst(url) ==
    IF url = "" THEN <<FALSE, "", RequiredError>>
    ELSE LET sanitized_url == sanitize_input(url)
         IN  IF ~is_valid_url(AddScheme(sanitized_url)) THEN <<FALSE, "", FormatError>>
             ELSE IF contains_sql_injection(sanitized_url) THEN <<FALSE, "", ProhibitedError>>
             ELSE <<TRUE, AddScheme(sanitized_url), "">>

\* The tuple (is_valid, sanitized_url, error_message).
validate_and_sanitize_url(url) ==
    IF url = "" THEN <<FALSE, "", RequiredError>>
    ELSE LET sanitized_url == sanitize_input(url)
         IN  IF contains_sql_injection(sanitized_url) THEN <<FALSE, "", ProhibitedError>>
             ELSE IF ~is_valid_url(AddScheme(sanitized_url)) THEN <<FALSE, "", FormatError>>
             ELSE <<TRUE, AddScheme(sanitized_url), "">>

normalize_url(url) ==
    IF url = "" THEN ""
    ELSE AddScheme(sanitize_input(url))

VARIABLES
    input,        \* the raw string handed to the validator
    vpc,          \* "ready", then "validated" (validate_and_sanitize_url returned), then "routed"
    verdict,      \* the tuple validate_and_sanitize_url returned
    route_ok      \* what the route's is_valid_url(normalize_url(input)) returned

validator_vars == <<input, vpc, verdict, route_ok>>

NoVerdict == <<FALSE, "", "(not called)">>

(***************************************************************************)
(* The site being scraped and the configuration of the server              *)
(***************************************************************************)

VARIABLES
    site,             \* which of the Sites the network serves
    use_zenrows,      \* scraper.py: self.zenrows_api_key is set
    redis_client,     \* cache.py: TRUE when the Redis client was created
    cache,            \* the Redis store: cache key -> stored value
    fetches,          \* the network fetches issued so far: <<strategy, url>>
    pc,               \* where the request thread stands
    request,          \* the /scrape request being served: [url, options]
    discovered_urls,  \* scrape_website: the set of scheduled URLs
    future_to_url,    \* the futures in submission order, each with its URL
    fstate,           \* future -> "pending", "finished"
    fresult,          \* future -> what scrape_url returned or that it raised
    tried,            \* call of scrape_url -> the strategies it tried, in order
    snapshot,         \* the futures as_completed has still to yield
    results,          \* scrape_website: results
    result,           \* the result whose links the loop is going through
    todo,             \* positions of result.links the loop has not reached
    link,             \* the link that passed the test of line 209
    response          \* what the route returned to the caller

\* The variables of the specifications that follow one call in detail.
VARIABLES
    llm_enabled,      \* llm_cleaner.py: self.enabled, an OpenAI key is set
    call,             \* the scrape_url call followed: [route, url, options]
    fpc,              \* where that call stands
    cached_result,    \* scrape_url: cached, what cache_get returned
    zen,              \* what zenrows_scrape returned to scrape_url
    fetched,          \* scrape_url: result, the output of a strategy
    llm_reply,        \* what the OpenAI API answered to clean_content
    returned,         \* scrape_url: response_data, or the error it returns
    stored,           \* what cache_set returned to scrape_url
    clock,            \* the time of the Redis server, in seconds
    expires,          \* Redis: key -> the time at which the entry expires
    cache_failed,     \* the cache functions in which scrape_url's call caught an exception
    cache_call,       \* the last direct call of a cache function, with what it returned
    written,          \* key -> the last cache_set or cache_delete called on it
    ncalls            \* how many direct calls and waits there have been

\* The variables of the specifications that call one function on its own.
VARIABLES
    key_args,         \* _get_cache_key: the two (url, options) it is called on
    keys,             \* what the two calls gave: the joined string and the key
    web,              \* what the site serves for robots.txt and its sitemaps
    spc,              \* where get_urls_from_sitemap stands
    max_urls_arg,     \* get_urls_from_sitemap: max_urls
    sitemap_urls,     \* get_urls_from_sitemap: sitemap_urls
    parsed,           \* how many elements of sitemap_urls the loop has taken
    all_urls,         \* get_urls_from_sitemap: all_urls
    printed,          \* the errors sitemap.py has printed
    listed,           \* what get_urls_from_sitemap returned
    sitemap_gets      \* the sitemap URLs _parse_sitemap has sent a GET for, in order

fetch_vars ==
    <<llm_enabled, call, fpc, cached_result, zen, fetched, llm_reply, returned, stored>>
expiry_vars == <<clock, expires, cache_failed, cache_call, written, ncalls>>
key_vars == <<key_args, keys>>
sitemap_vars ==
    <<web, spc, max_urls_arg, sitemap_urls, parsed, all_urls, printed, listed, sitemap_gets>>
detail_vars == <<fetch_vars, expiry_vars, key_vars, sitemap_vars>>
\* The variables of the functions that are called on their own.
alone_vars == <<validator_vars, key_vars, sitemap_vars>>

base == "https://example.com"
PageA == "https://example.com/a"
PageB == "https://example.com/b"
PageC == "https://example.com/c"
PageD == "https://example.com/d"
Pages == <<base, PageA, PageB, PageC, PageD>>
PrivateUrl == "http://127.0.0.1/admin"
SpacedUrl == "https://example.com/x y"
OtherHostUrl == "https://other.org/x"
PdfUrl == "https://example.com/doc.pdf"
PipedUrl == "https://example.com/a|llm"

Range(seq) == {seq[i] : i \in 1..Len(seq)}

\* "mesh": five pages, each linking to the four others; its sitemap lists
\* two of them. "leaky": the home page links twice to a relative path, to
\* a private address and to a same-host URL holding a space; its sitemap
\* lists a page, that page's URL followed by '|llm', a foreign host, a PDF
\* and the URL with the space. "bare": one page, no links, no sitemap.
Sites == {"mesh", "leaky", "bare"}

\* The sites a single call is followed on: those above and three whose
\* pages hold control characters, in the paragraph or in the menu.
PageSites == Sites \cup {"garbled", "edge", "navgarbled"}

\* The href attributes of the anchors of the page served at url.
Hrefs(s, url) ==
    IF s = "mesh" /\ url \in Range(Pages)
        THEN SelectSeq(Pages, LAMBDA p : p # url)
    ELSE IF s = "leaky" /\ url = base
        THEN <<"/a", "/a", PrivateUrl, SpacedUrl>>
    ELSE << >>

\* Every URL a request, a sitemap or an anchor of the Sites can bring to
\* scrape_url.
Urls == Range(Pages) \cup {"/a", PrivateUrl, SpacedUrl, OtherHostUrl, PdfUrl, PipedUrl}

\* The <loc> entries of the site's sitemap, in document order.
SitemapEntries(s) ==
    IF s = "mesh" THEN <<base, PageA>>
    ELSE IF s = "leaky" THEN <<PageA, PipedUrl, OtherHostUrl, PdfUrl, SpacedUrl>>
    ELSE << >>

(***************************************************************************)
(* sitemap.py                                                              *)
(***************************************************************************)

skip_ext ==
    {".pdf", ".jpg", ".png", ".gif", ".zip", ".exe",
     ".css", ".js", ".ico", ".svg", ".mp4", ".mp3"}

\* SitemapParser._is_valid_url
sitemap_is_valid_url(domain, url) ==
    /\ urlparse(url).netloc = domain
    /\ ~\E ext \in skip_ext : EndsWith(LowerStr(url), ext)

\* A list without its repeated elements, first occurrences kept.
RECURSIVE Distinct(_)
Distinct(seq) ==
    IF seq = << >> THEN << >>
    ELSE LET front == Distinct(SubSeq(seq, 1, Len(seq) - 1))
             last == seq[Len(seq)]
         IN  IF last \in Range(front) THEN front ELSE Append(front, last)

Min(a, b) == IF a <= b THEN a ELSE b

Take(seq, n) == SubSeq(seq, 1, Min(n, Len(seq)))

\* SitemapParser._parse_sitemap: the valid entries in document order, added
\* to a set until it holds max_urls of them.
parse_sitemap(domain, entries, max_urls) ==
    Take(Distinct(SelectSeq(entries, LAMBDA u : sitemap_is_valid_url(domain, u))), max_urls)

\* SitemapParser.get_urls_from_sitemap: all_urls = set([base_url]), updated
\* with at most max_urls - len(all_urls) sitemap URLs. The list made of the
\* set is given here with the base URL first.
get_urls_from_sitemap(base_url, entries, max_urls) ==
    Take(Distinct(<<base_url>> \o
                  parse_sitemap(urlparse(base_url).netloc, entries, max_urls - 1)),
         max_urls)

(***************************************************************************)
(* cache.py and the cache key                                              *)
(***************************************************************************)

\* hashlib.md5(...).hexdigest(): a digest that tells its arguments apart.
md5(key_string) == <<"md5", key_string>>

\* Line 235-239: key_parts, the URL followed by 'detailed' and 'llm' for the
\* options that are set.
key_parts(url, options) ==
    <<url>> \o (IF options.enableDetailedResponse THEN <<"detailed">> ELSE << >>)
            \o (IF options.llmFilter THEN <<"llm">> ELSE << >>)

\* sep.join(parts)
RECURSIVE Join(_, _)
Join(parts, sep) ==
    IF parts = << >> THEN ""
    ELSE IF Len(parts) = 1 THEN parts[1]
    ELSE parts[1] \o sep \o Join(Tail(parts), sep)

\* WebScraper._get_cache_key: the digest of '|'.join(key_parts).
get_cache_key(url, options) == md5(Join(key_parts(url, options), "|"))

\* json.dumps and json.loads of a result.
json_dumps(value) == [json |-> value]
json_loads(text) == text.json

\* A result that is not there (None).
None == [url |-> "", status |-> "none", links |-> << >>, via |-> "none"]

\* cache_get: None without a client or without the key.
cache_get(store, key) ==
    IF ~redis_client THEN None
    ELSE IF key \in DOMAIN store THEN json_loads(store[key])
    ELSE None

\* cache_set: the store after setex(key, ttl, json.dumps(value)).
cache_set(store, key, value) ==
    IF ~redis_client THEN store
    ELSE [k \in DOMAIN store \cup {key} |-> IF k = key THEN json_dumps(value) ELSE store[k]]

(***************************************************************************)
(* scraper.py: scrape_url                                                  *)
(***************************************************************************)

\* urllib.parse.urljoin for an absolute href and for an absolute path.
urljoin(url, href) ==
    IF urlparse(href).scheme # "" THEN href
    ELSE IF StartsWith(href, "/") THEN urlparse(url).scheme \o "://" \o urlparse(url).netloc \o href
    ELSE url

\* Lines 113-125: the anchors joined to the page's URL, those on the page's
\* own netloc kept, as list(set(links)).
FallbackLinks(url, hrefs) ==
    Distinct(SelectSeq([i \in 1..Len(hrefs) |-> urljoin(url, hrefs[i])],
                       LAMBDA full_url : urlparse(full_url).netloc = urlparse(url).netloc))

\* Lines 138-146: the response built of a fetch that succeeded.
response_data(url, links, strategy) ==
    [url |-> url, status |-> "success", links |-> links, via |-> strategy]

\* Lines 132-136: the result of a URL that no strategy could fetch.
error_result(url) ==
    [url |-> url, status |-> "error", links |-> << >>, via |-> "none"]

\* requests.get sends nothing for a URL without an http or https scheme
\* (MissingSchema, InvalidSchema).
RequestsCanSend(url) == HasHttpScheme(LowerStr(url))

\* FallbackLinks and RequestsCanSend of every page, worked out once.
LinksByHttp == [s \in PageSites |-> [u \in Urls |-> FallbackLinks(u, Hrefs(s, u))]]
CanSend == [u \in Urls |-> RequestsCanSend(u)]

\* A scrape_url that goes on to the plain request whatever the proxy gave.
StrategiesAllTried(zen_ok) ==
    (IF use_zenrows THEN <<"zenrows">> ELSE << >>) \o <<"http">>

\* Lines 45 and 60 of scrape_url: the proxy if there is an API key, then the
\* plain request if there is no result or the result is no success.
strategies_tried(zen_ok) ==
    (IF use_zenrows THEN <<"zenrows">> ELSE << >>)
        \o (IF use_zenrows /\ zen_ok THEN << >> ELSE <<"http">>)

\* scrape_url(url, options) on the store, zen_ok and http_ok telling
\* whether the proxy and the plain fetch succeed if they are tried. Gives
\* the returned result, the store afterwards, the strategies tried and the
\* fetches they issued.
scrape_url(url, options, store, zen_ok, http_ok) ==
    LET cache_key == get_cache_key(url, options)
        cached == cache_get(store, cache_key)
        order == strategies_tried(zen_ok)
        issued == {<<order[k], url>> : k \in {j \in 1..Len(order) : order[j] = "http" => CanSend[url]}}
        by_zenrows == response_data(url, Hrefs(site, url), "zenrows")
        by_http == response_data(url, LinksByHttp[site][url], "http")
    IN  IF cached # None
            THEN [result |-> cached, cache |-> store, fetched |-> {}, tried |-> << >>]
        ELSE IF use_zenrows /\ zen_ok
            THEN [result |-> by_zenrows,
                  cache |-> cache_set(store, cache_key, by_zenrows),
                  fetched |-> issued, tried |-> order]
        ELSE IF CanSend[url] /\ http_ok
            THEN [result |-> by_http,
                  cache |-> cache_set(store, cache_key, by_http),
                  fetched |-> issued, tried |-> order]
        ELSE [result |-> error_result(url), cache |-> store,
              fetched |-> issued, tried |-> order]

(***************************************************************************)
(* routes.py /scrape and scraper.py scrape_website                         *)
(***************************************************************************)

\* The largest maxPages a request of the model asks for.
MaxPagesBound == 3
\* scraper.py: min(options.get('maxPages', 50), 500)
MaxPagesLimit == 500
RequestUrls == {"example.com", base, PrivateUrl, "ftp://example.com"}

\* /scrape, lines 44-46: normalize_url and is_valid_url of every request
\* URL, worked out once.
Normalized == [raw \in RequestUrls |-> normalize_url(raw)]
PassesRoute == [raw \in RequestUrls |-> is_valid_url(normalize_url(raw))]

OptionsSet ==
    [maxPages : 1..MaxPagesBound, crawlSubpages : BOOLEAN, followSitemap : BOOLEAN,
     enableDetailedResponse : {FALSE}, llmFilter : {FALSE}]

NoRequest ==
    [url |-> "",
     options |-> [maxPages |-> 1, crawlSubpages |-> FALSE, followSitemap |-> FALSE,
                  enableDetailedResponse |-> FALSE, llmFilter |-> FALSE]]

NoReport ==
    [baseUrl |-> "", totalPages |-> 0, successful |-> 0, failed |-> 0, results |-> << >>]

NoResponse == [code |-> 0, error |-> "", report |-> NoReport]

max_pages == Min(request.options.maxPages, MaxPagesLimit)
crawl_subpages == request.options.crawlSubpages

HowMany(rs, status) == Cardinality({i \in 1..Len(rs) : rs[i].status = status})

\* A summary whose failed counts a status no result has.
SummaryMiscounted(base_url, rs) ==
    [baseUrl |-> base_url,
     totalPages |-> Len(rs),
     successful |-> HowMany(rs, "success"),
     failed |-> HowMany(rs, "failed"),
     results |-> rs]

\* scrape_website, lines 221-231.
Summary(base_url, rs) ==
    [baseUrl |-> base_url,
     totalPages |-> Len(rs),
     successful |-> HowMany(rs, "success"),
     failed |-> HowMany(rs, "error"),
     results |-> rs]

\* routes.py, lines 61-67: the report wrapped around one result.
SinglePageReport(url, r) ==
    [baseUrl |-> url,
     totalPages |-> 1,
     successful |-> IF r.status = "success" THEN 1 ELSE 0,
     failed |-> IF r.status = "success" THEN 0 ELSE 1,
     results |-> <<r>>]

\* scrape_website, lines 175-187: the URLs submitted first.
Seeds(base_url, options) ==
    Take(IF options.followSitemap
             THEN get_urls_from_sitemap(base_url, SitemapEntries(site),
                                        Min(options.maxPages, MaxPagesLimit))
             ELSE <<base_url>>,
         Min(options.maxPages, MaxPagesLimit))

\* Line 209 without its test of the size.
LinkPassesAnySize(l, discovered, limit) == l \notin discovered

\* Line 209: link not in discovered_urls and len(discovered_urls) < max_pages
LinkPasses(l, discovered, limit) ==
    l \notin discovered /\ Cardinality(discovered) < limit

\* What a future holds when scrape_url raised.
Raised(url) == [url |-> url, status |-> "raised", links |-> << >>, via |-> "none"]

crawl_locals ==
    <<discovered_urls, future_to_url, fstate, fresult, snapshot, results, result, todo, link>>
environment == <<site, use_zenrows, redis_client>>
crawl_vars ==
    <<site, use_zenrows, redis_client, cache, fetches, pc, request, discovered_urls,
      future_to_url, fstate, fresult, tried, snapshot, results, result, todo, link, response>>

\* No crawl is under way: scrape_website's locals do not exist.
NoCrawl ==
    /\ discovered_urls = {}
    /\ future_to_url = << >>
    /\ fstate = << >>
    /\ fresult = << >>
    /\ tried = << >>
    /\ snapshot = {}
    /\ results = << >>
    /\ result = None
    /\ todo = {}
    /\ link = ""

\* The server once started: nothing fetched, no request.
ServerStarted ==
    /\ fetches = {}
    /\ pc = "idle"
    /\ request = NoRequest
    /\ NoCrawl
    /\ response = NoResponse

\* /scrape, lines 44-47: the URL is not valid, 400.
ScrapeRejected(raw, options) ==
    /\ pc = "idle"
    /\ ~PassesRoute[raw]
    /\ request' = [url |-> Normalized[raw], options |-> options]
    /\ response' = [code |-> 400, error |-> "Invalid URL format", report |-> NoReport]
    /\ pc' = "responded"
    /\ UNCHANGED <<validator_vars, detail_vars, environment, cache, fetches, crawl_locals, tried>>

\* /scrape, lines 58-69: one page, scrape_url in the request's thread; 500
\* when it raises.
ScrapeSinglePage(raw, options, zen_ok, http_ok, raises) ==
    LET url == Normalized[raw]
        out == scrape_url(url, options, cache, zen_ok, http_ok)
    IN  /\ pc = "idle"
        /\ PassesRoute[raw]
        /\ ~options.crawlSubpages
        /\ request' = [url |-> url, options |-> options]
        /\ IF raises
              THEN /\ response' = [code |-> 500, error |-> "raised", report |-> NoReport]
                   /\ UNCHANGED <<cache, fetches, tried>>
              ELSE /\ response' = [code |-> 200, error |-> "",
                                   report |-> SinglePageReport(url, out.result)]
                   /\ cache' = out.cache
                   /\ fetches' = fetches \cup out.fetched
                   /\ tried' = <<out.tried>>
        /\ pc' = "responded"
        /\ UNCHANGED <<validator_vars, detail_vars, environment, crawl_locals>>

\* /scrape, line 57, and scrape_website, lines 170-199: the seeds are
\* submitted and as_completed takes the futures there are.
ScrapeWebsite(raw, options) ==
    LET url == Normalized[raw]
        urls_to_scrape == Seeds(url, options)
    IN  /\ pc = "idle"
        /\ PassesRoute[raw]
        /\ options.crawlSubpages
        /\ request' = [url |-> url, options |-> options]
        /\ response' = NoResponse
        /\ results' = << >>
        /\ discovered_urls' = Range(urls_to_scrape)
        /\ future_to_url' = urls_to_scrape
        /\ fstate' = [i \in 1..Len(urls_to_scrape) |-> "pending"]
        /\ fresult' = [i \in 1..Len(urls_to_scrape) |-> None]
        /\ tried' = [i \in 1..Len(urls_to_scrape) |-> << >>]
        /\ snapshot' = 1..Len(urls_to_scrape)
        /\ result' = None
        /\ todo' = {}
        /\ link' = ""
        /\ pc' = "collect"
        /\ UNCHANGED <<validator_vars, detail_vars, environment, cache, fetches>>

\* A worker of the pool runs a unit of work: its scrape_url returns or
\* raises, and the future is done. The pool has four threads (max_workers),
\* no fewer than the units a crawl of the model submits, so that no unit
\* waits for another to end.
RunUnit(i, zen_ok, http_ok, raises) ==
    /\ i \in 1..Len(future_to_url)
    /\ fstate[i] = "pending"
    /\ fstate' = [fstate EXCEPT ![i] = "finished"]
    /\ LET out == scrape_url(future_to_url[i], request.options, cache, zen_ok, http_ok)
       IN  IF raises
              THEN /\ fresult' = [fresult EXCEPT ![i] = Raised(future_to_url[i])]
                   /\ UNCHANGED <<cache, fetches, tried>>
              ELSE /\ fresult' = [fresult EXCEPT ![i] = out.result]
                   /\ cache' = out.cache
                   /\ fetches' = fetches \cup out.fetched
                   /\ tried' = [tried EXCEPT ![i] = out.tried]
    /\ UNCHANGED <<validator_vars, detail_vars, environment, pc, request, discovered_urls, future_to_url,
                   snapshot, results, result, todo, link, response>>

\* Lines 199-207 and 214-219: as_completed yields a future that is done; its
\* result, or an error entry if it raised, is appended; the loop over the
\* links is entered if there is room.
CollectResult(i) ==
    /\ pc = "collect"
    /\ i \in snapshot
    /\ fstate[i] = "finished"
    /\ snapshot' = snapshot \ {i}
    /\ IF fresult[i].status = "raised"
          THEN /\ results' = Append(results, error_result(future_to_url[i]))
               /\ UNCHANGED <<pc, result, todo>>
          ELSE /\ results' = Append(results, fresult[i])
               /\ IF /\ crawl_subpages
                     /\ Cardinality(discovered_urls) < max_pages
                     /\ fresult[i].links # << >>
                     THEN /\ pc' = "links"
                          /\ result' = fresult[i]
                          /\ todo' = 1..Len(fresult[i].links)
                     ELSE UNCHANGED <<pc, result, todo>>
    /\ UNCHANGED <<validator_vars, detail_vars, environment, cache, fetches, request, discovered_urls, future_to_url,
                   fstate, tried, fresult, link, response>>

\* Lines 208-209: the next link is tested. A list the proxy gave is gone
\* through in its order; list(set(links)) has the order of the set.
TestLink(k) ==
    /\ pc = "links"
    /\ k \in todo
    /\ result.via = "http" \/ \A j \in todo : k <= j
    /\ todo' = todo \ {k}
    /\ IF LinkPasses(result.links[k], discovered_urls, max_pages)
          THEN /\ pc' = "add"
               /\ link' = result.links[k]
          ELSE /\ pc' = IF todo' = {} THEN "collect" ELSE "links"
               /\ UNCHANGED link
    /\ UNCHANGED <<validator_vars, detail_vars, environment, cache, fetches, request, discovered_urls, future_to_url,
                   fstate, tried, fresult, snapshot, results, result, response>>

\* Lines 210-212: the link is added and a unit of work submitted for it.
AddLink ==
    /\ pc = "add"
    /\ discovered_urls' = discovered_urls \cup {link}
    /\ future_to_url' = Append(future_to_url, link)
    /\ fstate' = Append(fstate, "pending")
    /\ fresult' = Append(fresult, None)
    /\ tried' = Append(tried, << >>)
    /\ link' = ""
    /\ pc' = IF todo = {} THEN "collect" ELSE "links"
    /\ UNCHANGED <<validator_vars, detail_vars, environment, cache, fetches, request, snapshot, results, result,
                   todo, response>>

\* Lines 199 and 193: as_completed has yielded all it took, the pool is shut
\* down once every unit is done, and the summary goes back (lines 221-231,
\* routes.py line 69).
ReturnReport ==
    /\ pc = "collect"
    /\ snapshot = {}
    /\ \A i \in 1..Len(future_to_url) : fstate[i] = "finished"
    /\ response' = [code |-> 200, error |-> "", report |-> Summary(request.url, results)]
    /\ pc' = "responded"
    /\ UNCHANGED <<validator_vars, detail_vars, environment, cache, fetches, request, discovered_urls, future_to_url,
                   fstate, tried, fresult, snapshot, results, result, todo, link>>

(***************************************************************************)
(* scrape_url in detail: what a page holds, what each strategy makes of    *)
(* it, the LLM cleaner, and the expiry of the cache's entries              *)
(***************************************************************************)

\* config.py: CACHE_TTL
CACHE_TTL == 3600
\* llm_cleaner.py line 29: shorter content is not sent to the LLM
MinCleanLength == 100
\* llm_cleaner.py line 35: max_chars
MaxCleanChars == 12000
\* The three backquotes of a code fence, which a TLA+ string cannot hold.
Fence == "'''"

\* The text of the page's <title> and of the paragraph of its <main>. The
\* page of the "bare" site is short; one page of the "mesh" site is longer
\* than max_chars; "garbled" has 51 control characters in the paragraph,
\* "edge" has 50 of them in the first 500 characters and one behind.
TitleOf(url) == "Title of " \o url
MainText(s, url) ==
    IF s = "bare" THEN "Nothing here."
    ELSE IF s = "mesh" /\ url = PageD THEN Repeat("Lorem ipsum dolor. ", 640) \o url
    ELSE IF s = "garbled" THEN "Lorem" \o Repeat(NUL, 51) \o " ipsum dolor. " \o url
    ELSE IF s = "edge"
        THEN Repeat("Lorem ipsum dolor. ", 23) \o "Lorem ipsum. " \o Repeat(NUL, 51) \o url
    ELSE Repeat("Lorem ipsum dolor. ", 6) \o url

\* What the elements around the paragraph hold; the menu of "navgarbled"
\* has 51 control characters.
NoiseText(s, tag) ==
    IF tag = "header" THEN "Banner"
    ELSE IF tag = "nav" THEN (IF s = "navgarbled" THEN "Me" \o Repeat(NUL, 51) \o "nu" ELSE "Menu")
    ELSE IF tag = "aside" THEN "Related"
    ELSE IF tag = "footer" THEN "Footer"
    ELSE IF tag = "script" THEN "track();"
    ELSE IF tag = "style" THEN "p { margin: 0 }"
    ELSE "Enable JavaScript"

\* An element that holds a text, and one that holds elements.
Leaf(tag, text) == [tag |-> tag, text |-> text, children |-> << >>]
Node(tag, children) == [tag |-> tag, text |-> "", children |-> children]

\* The children of the <body> of the page: a paragraph and two invisible
\* elements on the "bare" site; elsewhere a header, a menu, a script, a
\* style sheet, <main> with the paragraph and an aside, a <noscript> and a
\* footer.
Body(s, url) ==
    IF s = "bare"
        THEN <<Leaf("p", MainText(s, url)), Leaf("style", NoiseText(s, "style")),
               Leaf("noscript", NoiseText(s, "noscript"))>>
    ELSE <<Leaf("header", NoiseText(s, "header")), Leaf("nav", NoiseText(s, "nav")),
           Leaf("script", NoiseText(s, "script")), Leaf("style", NoiseText(s, "style")),
           Node("main", <<Leaf("p", MainText(s, url)), Leaf("aside", NoiseText(s, "aside"))>>),
           Leaf("noscript", NoiseText(s, "noscript")), Leaf("footer", NoiseText(s, "footer"))>>

\* for tag in soup([...]): tag.decompose()
RECURSIVE decompose(_, _)
decompose(elements, tags) ==
    IF elements = << >> THEN << >>
    ELSE LET e == Head(elements)
         IN  (IF e.tag \in tags THEN << >>
              ELSE <<[e EXCEPT !.children = decompose(e.children, tags)]>>)
             \o decompose(Tail(elements), tags)

\* soup.find(tag): the first element of that name in document order, as a
\* list of one or none.
RECURSIVE find(_, _)
find(elements, tag) ==
    IF elements = << >> THEN << >>
    ELSE IF Head(elements).tag = tag THEN <<Head(elements)>>
    ELSE LET below == find(Head(elements).children, tag)
         IN  IF below # << >> THEN below ELSE find(Tail(elements), tag)

\* The strings of get_text(strip=True): every text in document order,
\* stripped, the empty ones left out.
RECURSIVE stripped_strings(_)
stripped_strings(elements) ==
    IF elements = << >> THEN << >>
    ELSE LET e == Head(elements)
             own == IF Strip(e.text) = "" THEN << >> ELSE <<Strip(e.text)>>
         IN  own \o stripped_strings(e.children) \o stripped_strings(Tail(elements))

\* get_text(separator='\n\n', strip=True)
get_text(elements) == Join(stripped_strings(elements), "\n\n")

\* zenrows_helper.py line 77 and scraper.py line 109: text[:500]
SampleLength == 500
\* zenrows_helper.py line 78 and scraper.py line 110: non_printable > 50
GarbledThreshold == 50

\* A count of the control characters of the whole text.
RECURSIVE NonPrintableAnywhere(_, _, _)
NonPrintableAnywhere(text, lo, hi) ==
    IF lo > hi THEN 0
    ELSE IF lo = hi
        THEN (IF CharAt(text, lo) \in ControlChars \ {"\n", "\r", "\t"} THEN 1 ELSE 0)
    ELSE LET mid == (lo + hi) \div 2
         IN  NonPrintableAnywhere(text, lo, mid) + NonPrintableAnywhere(text, mid + 1, hi)

\* sum(1 for char in text[:500] if ord(char) < 32 and char not in '\n\r\t')
\* over the positions lo..hi of text.
RECURSIVE non_printable(_, _, _)
non_printable(text, lo, hi) ==
    IF lo > Min(hi, SampleLength) THEN 0
    ELSE IF lo = hi
        THEN (IF CharAt(text, lo) \in ControlChars \ {"\n", "\r", "\t"} THEN 1 ELSE 0)
    ELSE LET mid == (lo + hi) \div 2
         IN  non_printable(text, lo, mid) + non_printable(text, mid + 1, hi)

\* re.sub(r' +', ' ', text) over the positions lo..hi: a space that follows
\* a space goes.
RECURSIVE single_spaces(_, _, _)
single_spaces(text, lo, hi) ==
    IF lo > hi THEN ""
    ELSE IF lo = hi
        THEN (IF CharAt(text, lo) = " " /\ lo > 1 /\ CharAt(text, lo - 1) = " "
                  THEN "" ELSE CharAt(text, lo))
    ELSE LET mid == (lo + hi) \div 2
         IN  single_spaces(text, lo, mid) \o single_spaces(text, mid + 1, hi)

\* re.sub(r'\n\n\n+', '\n\n', text) over the positions lo..hi: a newline
\* that follows two newlines goes.
RECURSIVE two_newlines(_, _, _)
two_newlines(text, lo, hi) ==
    IF lo > hi THEN ""
    ELSE IF lo = hi
        THEN (IF lo > 2 /\ SubSeq(text, lo - 2, lo) = "\n\n\n" THEN "" ELSE CharAt(text, lo))
    ELSE LET mid == (lo + hi) \div 2
         IN  two_newlines(text, lo, mid) \o two_newlines(text, mid + 1, hi)

\* zenrows_helper.py lines 82-84: the whitespace cleaned up.
clean_whitespace(text) ==
    LET spaced == single_spaces(text, 1, Len(text))
    IN  Strip(two_newlines(spaced, 1, Len(spaced)))

\* Line 51 of zenrows_helper.py and line 100 of scraper.py: what each
\* strategy removes of the page.
ZenrowsUnwanted == {"script", "style", "nav", "footer", "header", "aside", "noscript", "iframe"}
FallbackUnwanted == {"script", "style", "noscript"}

\* zenrows_helper.py lines 58-73: the text of the first <main>, else of the
\* first <article>, else of <body>, the unwanted elements removed.
zenrows_text(page) ==
    LET soup == decompose(page, ZenrowsUnwanted)
        main_content == IF find(soup, "main") # << >> THEN find(soup, "main")
                        ELSE IF find(soup, "article") # << >> THEN find(soup, "article")
                        ELSE soup
    IN  get_text(main_content)

\* scraper.py lines 100-105: the text of <body>, the unwanted elements
\* removed.
fallback_text(page) == get_text(decompose(page, FallbackUnwanted))

\* The exceptions of zenrows_helper.py line 79 and of scraper.py line 111.
GarbledByProxy == "Received garbled/binary content - possible encoding issue"
GarbledByHttp == "Received garbled content - encoding issue detected"

\* Why the proxy can fail before it has a text: the status raised at line
\* 28, the exception of line 36, an exception of the client; and with the
\* exception of line 79, every reason it can give.
ProxyFailures == {"HTTP 403", "Received empty or invalid response", "Read timed out"}
ZenrowsReasons == ProxyFailures \cup {GarbledByProxy}

\* Lines 98-104 of zenrows_helper.py: the except branch.
zenrows_failure(reason) ==
    [title |-> "", text |-> "Error: " \o reason, links |-> << >>, success |-> FALSE,
     error |-> reason]

\* Lines 50-95 of zenrows_helper.py on the page the proxy has fetched: the
\* dictionary of lines 90-95, unless the text is garbled.
zenrows_extract(s, url) ==
    LET text == zenrows_text(Body(s, url))
    IN  IF non_printable(text, 1, Len(text)) > GarbledThreshold
            THEN zenrows_failure(GarbledByProxy)
        ELSE [title |-> TitleOf(url), text |-> clean_whitespace(text), links |-> Hrefs(s, url),
              success |-> TRUE, error |-> ""]

\* zenrows_extract of every page, worked out once.
ProxyPage == [s \in PageSites |-> [u \in Urls |-> zenrows_extract(s, u)]]

\* A zenrows_scrape whose except branch says success.
ZenrowsScrapeFailureAsSuccess(s, url, reason) ==
    IF reason = "" THEN ProxyPage[s][url]
    ELSE [zenrows_failure(reason) EXCEPT !.success = TRUE]

\* zenrows_scrape(url, api_key): what lines 50-95 make of the page, or the
\* dictionary of lines 98-104 when reason tells why the proxy failed before.
zenrows_scrape(s, url, reason) ==
    IF reason = "" THEN ProxyPage[s][url] ELSE zenrows_failure(reason)

\* Why the plain request can fail before it has a text: raise_for_status,
\* an exception of requests.get; and with the exception of line 111, every
\* reason it can give.
HttpFailures == {"404 Client Error: Not Found", "Connection refused"}
HttpReasons == HttpFailures \cup {GarbledByHttp}

\* What requests.get raises for a URL it cannot send.
MissingSchema == "Invalid URL: No scheme supplied"

\* The plain request has raised.
fallback_failure(reason) ==
    [title |-> "", text |-> "", links |-> << >>, success |-> FALSE, error |-> reason]

\* Lines 95-127 of scraper.py on the page the plain request has fetched:
\* the dictionary of lines 122-127, unless the text is garbled.
fallback_extract(s, url) ==
    LET text == fallback_text(Body(s, url))
    IN  IF text # "" /\ non_printable(text, 1, Len(text)) > GarbledThreshold
            THEN fallback_failure(GarbledByHttp)
        ELSE [title |-> TitleOf(url), text |-> text, links |-> LinksByHttp[s][url],
              success |-> TRUE, error |-> ""]

\* fallback_extract of every page, worked out once.
HttpPage == [s \in PageSites |-> [u \in Urls |-> fallback_extract(s, u)]]

\* Lines 61-127: the dictionary the plain request ends with, or the text of
\* the exception it raised.
simple_request(s, url, reason) ==
    IF ~CanSend[url] THEN fallback_failure(MissingSchema)
    ELSE IF reason # "" THEN fallback_failure(reason)
    ELSE HttpPage[s][url]

\* No strategy has given anything: result = None.
NoFetch == [title |-> "", text |-> "", links |-> << >>, success |-> FALSE, error |-> "(none)"]

\* Lines 132-136: what scrape_url returns when the plain request raised.
all_failed(url, reason) ==
    [url |-> url, status |-> "error", error |-> "All scraping methods failed: " \o reason]

\* Lines 139-146: response_data.
build_response(url, r) ==
    [title |-> r.title, description |-> "", markdown |-> r.text, links |-> r.links,
     url |-> url, status |-> "success"]

\* What the OpenAI API can answer: a status and the content of the first
\* choice; status 0 stands for an exception of requests.post, and a body
\* without choices is malformed.
LLMReplies ==
    {[status |-> 200, malformed |-> FALSE, content |-> "# Cleaned\n\nLorem ipsum."],
     [status |-> 200, malformed |-> FALSE,
      content |-> Fence \o "markdown\n# Cleaned\n" \o Fence \o "\n"],
     [status |-> 200, malformed |-> FALSE, content |-> Fence \o "\n" \o Fence],
     [status |-> 200, malformed |-> TRUE, content |-> ""],
     [status |-> 429, malformed |-> FALSE, content |-> ""],
     [status |-> 0, malformed |-> FALSE, content |-> ""]}

NoReply == [status |-> -1, malformed |-> FALSE, content |-> ""]

\* clean_content, lines 25-31: whether the content is sent to the API.
SentToLLM(enabled, markdown) == enabled /\ Len(markdown) >= MinCleanLength

\* The note of line 98 for a content of n characters.
TruncationNote(n) ==
    "\n\n*[Note: Content was truncated due to length. Original length: "
        \o ToString(n) \o " characters]*"

\* A clean_content that gives nothing back when the call fails.
CleanContentOrNothing(enabled, markdown, reply) ==
    IF ~SentToLLM(enabled, markdown) THEN markdown
    ELSE IF reply.status # 200 \/ reply.malformed THEN ""
    ELSE reply.content

\* LLMCleaner.clean_content(markdown, url) when the API answers reply.
clean_content(enabled, markdown, reply) ==
    IF ~SentToLLM(enabled, markdown) THEN markdown
    ELSE IF reply.status = 0 THEN markdown
    ELSE IF reply.status # 200 THEN markdown
    ELSE IF reply.malformed THEN markdown
    ELSE LET stripped == Strip(reply.content)
             unfenced1 == IF StartsWith(stripped, Fence \o "markdown")
                              THEN SubSeq(stripped, Len(Fence) + 9, Len(stripped))
                              ELSE stripped
             unfenced2 == IF StartsWith(unfenced1, Fence)
                              THEN SubSeq(unfenced1, Len(Fence) + 1, Len(unfenced1))
                              ELSE unfenced1
             unfenced3 == IF EndsWith(unfenced2, Fence)
                              THEN SubSeq(unfenced2, 1, Len(unfenced2) - Len(Fence))
                              ELSE unfenced2
             cleaned == Strip(unfenced3) \o
                        (IF Len(markdown) > MaxCleanChars
                             THEN TruncationNote(Len(markdown)) ELSE "")
         IN  IF cleaned # "" THEN cleaned ELSE markdown

\* Redis: the entries that have not expired at the time now.
Live(store, exp, now) == [k \in {k \in DOMAIN store : now < exp[k]} |-> store[k]]

\* ttl or Config.CACHE_TTL: None and 0 give the default.
\* A cache_set that leaves its ttl argument aside.
TtlIgnored(ttl) == CACHE_TTL

\* ttl is << >> for None and <<n>> for a number n.
NoTtl == << >>
TtlOrDefault(ttl) == IF ttl = NoTtl \/ ttl[1] = 0 THEN CACHE_TTL ELSE ttl[1]

\* No call of scrape_url is followed.
NoCall == [route |-> "", url |-> "", options |-> NoRequest.options]
FetchOff ==
    /\ llm_enabled = FALSE
    /\ call = NoCall
    /\ fpc = "off"
    /\ cached_result = None
    /\ zen = NoFetch
    /\ fetched = NoFetch
    /\ llm_reply = NoReply
    /\ returned = None
    /\ stored = FALSE

\* No cache function has been called directly.
NoCacheCall == [op |-> "", key |-> <<"md5", "">>, at |-> 0, failed |-> FALSE, ret |-> None]

\* Time has not passed since the entries of the store were written, and
\* nothing has failed.
ExpiryOff ==
    /\ clock = 0
    /\ expires = [k \in DOMAIN cache |-> CACHE_TTL]
    /\ cache_failed = {}
    /\ cache_call = NoCacheCall
    /\ written = << >>
    /\ ncalls = 0

\* _get_cache_key is not being called on its own.
KeyOff ==
    /\ key_args = << >>
    /\ keys = << >>

\* get_urls_from_sitemap is not being called on its own.
SitemapOff ==
    /\ web = << >>
    /\ spc = "off"
    /\ max_urls_arg = 0
    /\ sitemap_urls = << >>
    /\ parsed = 0
    /\ all_urls = {}
    /\ printed = << >>
    /\ listed = << >>
    /\ sitemap_gets = << >>

DetailOff == FetchOff /\ ExpiryOff /\ KeyOff /\ SitemapOff

\* The stores earlier requests can have left behind, Redis outliving the
\* server: nothing, the home page scraped with no option set, a page
\* scraped with llmFilter set.
StoresLeftBehind ==
    {<< >>,
     scrape_url(base, NoRequest.options, << >>, TRUE, TRUE).cache,
     scrape_url(PageA, [NoRequest.options EXCEPT !.llmFilter = TRUE], << >>, TRUE, TRUE).cache}

\* The validator is not being called on its own.
ValidatorOff ==
    /\ input = ""
    /\ vpc = "off"
    /\ verdict = NoVerdict
    /\ route_ok = FALSE

vars ==
    <<input, vpc, verdict, route_ok, site, use_zenrows, redis_client, cache, fetches, pc,
      request, discovered_urls, future_to_url, fstate, fresult, tried, snapshot, results, result,
      todo, link, response, llm_enabled, call, fpc, cached_result, zen, fetched, llm_reply,
      returned, stored, clock, expires, cache_failed, cache_call, written, ncalls,
      key_args, keys, web, spc, max_urls_arg, sitemap_urls, parsed, all_urls, printed,
      listed, sitemap_gets>>

Init ==
    /\ site \in Sites
    /\ use_zenrows \in BOOLEAN
    /\ redis_client \in BOOLEAN
    /\ cache \in StoresLeftBehind
    /\ ServerStarted
    /\ ValidatorOff
    /\ DetailOff

Next ==
    \/ \E raw \in RequestUrls, options \in OptionsSet : ScrapeRejected(raw, options)
    \/ \E raw \in RequestUrls, options \in OptionsSet, zen_ok, http_ok, raises \in BOOLEAN : ScrapeSinglePage(raw, options, zen_ok, http_ok, raises)
    \/ \E raw \in RequestUrls, options \in OptionsSet : ScrapeWebsite(raw, options)
    \/ \E i \in 1..Len(future_to_url), zen_ok, http_ok, raises \in BOOLEAN : RunUnit(i, zen_ok, http_ok, raises)
    \/ \E i \in snapshot : CollectResult(i)
    \/ \E k \in todo : TestLink(k)
    \/ AddLink
    \/ ReturnReport

Spec == Init /\ [][Next]_vars

(***************************************************************************)
(* The validator called on its own: one call of validate_and_sanitize_url  *)
(* and one of the route's normalize_url + is_valid_url, on an input drawn  *)
(* from ValidatorInputs.                                                   *)
(***************************************************************************)

\* How many characters beyond MaxUrlLength the longest input has.
LongMargin == 1

InputSchemes == {"", "http://", "https://", "ftp://", "file://"}
InputUserinfos == {"", "user@"}
InputHosts ==
    {"example.com", "localhost", "127.0.0.1", "0.0.0.0", "[::1]", "10.0.0.1",
     "172.16.0.1", "172.31.255.254", "172.32.0.1", "192.168.1.1", "8.8.8.8",
     "ab", ""}
InputPorts == {"", ":8080"}
InputPaths == {"", "/path/to/page", "/%7Euser", "/a b"}

\* 'https://example.com/' followed by as many 'a' as make n characters.
LongUrl(n) == "https://example.com/" \o Repeat("a", n - 20)

SpecialInputs ==
    {"", "abc", "not a url", "a.io", "http://a.io",
     "  https://example.com  ", " example.com ", "\texample.com\n",
     "example.com" \o NUL \o "malicious", "https://example.com/" \o NUL,
     "https://example.com/%00", "https://subdomain.example.com",
     "file:///etc/passwd", "https:///path", "HTTP://example.com",
     "'; DROP TABLE users--", "' OR '1'='1", "example.com; DELETE FROM users",
     "UNION SELECT * FROM passwords", "example.com/* comment */",
     "<script>alert('xss')</script>", "javascript:alert(1)",
     "https://example.com/select", "https://example.com/SeLeCt?x",
     "https://example.com/selection", "https://example.com/a%27b",
     "https://example.com/a%3Bb", "https://example.com/a||b",
     "https://example.com/a*b", "https://example.com/xp_cmd",
     "https://example.com/?or=1", "https://example.com/?q=1",
     "https://example.com/script", "https://example.com/description",
     "https://example.com/a--b", "https://example.com/a-b",
     "https://example.com/%2A", "example.com/exec", "example.com/%64rop",
     Repeat("x", 3000),
     LongUrl(MaxUrlLength - 1), LongUrl(MaxUrlLength), LongUrl(MaxUrlLength + LongMargin)}

ValidatorInputs ==
    {sc \o ui \o h \o po \o pa :
        sc \in InputSchemes, ui \in InputUserinfos, h \in InputHosts,
        po \in InputPorts, pa \in InputPaths}
    \cup SpecialInputs

\* The server is not started while the validator is called on its own.
ServerOff ==
    /\ site = "bare"
    /\ use_zenrows = FALSE
    /\ redis_client = FALSE
    /\ cache = << >>
    /\ ServerStarted

ValidateInit ==
    /\ input \in ValidatorInputs
    /\ vpc = "ready"
    /\ verdict = NoVerdict
    /\ route_ok = FALSE
    /\ ServerOff
    /\ DetailOff

\* validators.py validate_and_sanitize_url(input)
CallValidate ==
    /\ vpc = "ready"
    /\ verdict' = validate_and_sanitize_url(input)
    /\ vpc' = "validated"
    /\ UNCHANGED <<input, route_ok, crawl_vars, detail_vars>>

\* routes.py: url = normalize_url(data['url']); is_valid_url(url)
CallRouteCheck ==
    /\ vpc = "validated"
    /\ route_ok' = is_valid_url(normalize_url(input))
    /\ vpc' = "routed"
    /\ UNCHANGED <<input, verdict, crawl_vars, detail_vars>>

ValidateNext == CallValidate \/ CallRouteCheck

SpecValidate == ValidateInit /\ [][ValidateNext]_vars

(***************************************************************************)
(* One call of scrape_url followed line by line: it comes of /scrape for a *)
(* single page, of /scrape/preview, or of a unit of work of a crawl.       *)
(***************************************************************************)

\* routes.py line 91: the options /scrape/preview gives to scrape_url.
PreviewOptions == NoRequest.options

\* The options of a request for one page.
PageOptions ==
    [maxPages : {1}, crawlSubpages : {FALSE}, followSitemap : {FALSE},
     enableDetailedResponse : BOOLEAN, llmFilter : BOOLEAN]

\* The URLs whose units of work are followed.
UnitUrls == {PageA, PageD, PipedUrl, "/a"}

\* Where the call goes once the cache gave nothing, line 45.
AfterMiss == IF use_zenrows THEN "zenrows" ELSE "fallback"

\* A key made of the URL alone.
CallKeyWithoutOptions == md5(call.url)

\* scrape_url, line 38.
CallKey == get_cache_key(call.url, call.options)

\* /scrape/preview, lines 86-89: the URL is not valid, 400.
PreviewRejected(raw) ==
    /\ fpc = "idle"
    /\ ~PassesRoute[raw]
    /\ call' = [route |-> "preview", url |-> Normalized[raw], options |-> PreviewOptions]
    /\ response' = [code |-> 400, error |-> "Invalid URL format", report |-> NoReport]
    /\ fpc' = "responded"
    /\ UNCHANGED <<alone_vars, environment, cache, fetches, pc, request, crawl_locals, tried,
                   llm_enabled, cached_result, zen, fetched, llm_reply, returned, stored,
                   expiry_vars>>

\* /scrape/preview, lines 86-91: scrape_url is called.
Preview(raw) ==
    /\ fpc = "idle"
    /\ PassesRoute[raw]
    /\ call' = [route |-> "preview", url |-> Normalized[raw], options |-> PreviewOptions]
    /\ fpc' = "lookup"
    /\ UNCHANGED <<alone_vars, crawl_vars, llm_enabled, cached_result, zen, fetched,
                   llm_reply, returned, stored, expiry_vars>>

\* /scrape, lines 44-61, for a single page: scrape_url is called.
ScrapePage(raw, options) ==
    /\ fpc = "idle"
    /\ PassesRoute[raw]
    /\ call' = [route |-> "scrape", url |-> Normalized[raw], options |-> options]
    /\ fpc' = "lookup"
    /\ UNCHANGED <<alone_vars, crawl_vars, llm_enabled, cached_result, zen, fetched,
                   llm_reply, returned, stored, expiry_vars>>

\* scrape_website, lines 187 and 211: executor.submit(self.scrape_url, url, options).
SubmitUnit(url, options) ==
    /\ fpc = "idle"
    /\ call' = [route |-> "crawl", url |-> url, options |-> options]
    /\ fpc' = "lookup"
    /\ UNCHANGED <<alone_vars, crawl_vars, llm_enabled, cached_result, zen, fetched,
                   llm_reply, returned, stored, expiry_vars>>

\* A cache_get whose except branch returns the error as a dictionary.
CacheGetReportingError(key, fails) ==
    IF fails THEN [url |-> "", status |-> "error", error |-> "Error connecting to Redis"]
    ELSE cache_get(Live(cache, expires, clock), key)

\* cache_get(key) at the time of the clock, lines 18-28; fails tells that
\* the store raised, and the exception is passed over.
cache_get_now(key, fails) ==
    IF fails THEN None ELSE cache_get(Live(cache, expires, clock), key)

\* Lines 38-41: cache_get.
LookUpCache(fails) ==
    LET value == cache_get_now(CallKey, fails)
    IN  /\ fpc = "lookup"
        /\ fails => redis_client
        /\ cached_result' = value
        /\ cache_failed' = IF fails THEN cache_failed \cup {"get"} ELSE cache_failed
        /\ IF value # None
              THEN /\ returned' = value
                   /\ fpc' = "returned"
              ELSE /\ fpc' = AfterMiss
                   /\ UNCHANGED returned
        /\ UNCHANGED <<alone_vars, crawl_vars, llm_enabled, call, zen, fetched, llm_reply,
                       stored, clock, expires, cache_call, written, ncalls>>

\* Lines 45-57: the proxy is tried; a result that did not succeed is dropped.
TryZenrows(reason) ==
    LET r == zenrows_scrape(site, call.url, reason)
    IN  /\ fpc = "zenrows"
        /\ zen' = r
        /\ fetches' = fetches \cup {<<"zenrows", call.url>>}
        /\ fetched' = IF r.success THEN r ELSE NoFetch
        /\ fpc' = IF r.success THEN "build" ELSE "fallback"
        /\ UNCHANGED <<alone_vars, environment, cache, pc, request, crawl_locals, tried, response,
                       llm_enabled, call, cached_result, llm_reply, returned, stored,
                       expiry_vars>>

\* An except branch that falls through to cache_set.
AfterFailureStored == "store"

\* Lines 130-136: the except branch returns; lines 138-157 are not reached.
AfterFailure == "returned"

\* Lines 60-136: the plain request; when it raises, the error is returned.
FallBack(reason) ==
    LET r == simple_request(site, call.url, reason)
    IN  /\ fpc = "fallback"
        /\ ~CanSend[call.url] => reason = ""
        /\ fetches' = IF CanSend[call.url] THEN fetches \cup {<<"http", call.url>>} ELSE fetches
        /\ IF r.success
              THEN /\ fetched' = r
                   /\ fpc' = "build"
                   /\ UNCHANGED returned
              ELSE /\ returned' = all_failed(call.url, r.error)
                   /\ fpc' = AfterFailure
                   /\ UNCHANGED fetched
        /\ UNCHANGED <<alone_vars, environment, cache, pc, request, crawl_locals, tried, response,
                       llm_enabled, call, cached_result, zen, llm_reply, stored, expiry_vars>>

\* Lines 139-150.
BuildResponse ==
    /\ fpc = "build"
    /\ returned' = build_response(call.url, fetched)
    /\ fpc' = IF call.options.llmFilter /\ llm_enabled THEN "llm" ELSE "store"
    /\ UNCHANGED <<alone_vars, crawl_vars, llm_enabled, call, cached_result, zen, fetched,
                   llm_reply, stored, expiry_vars>>

\* Lines 151-152: clean_content, to which the API answers reply if it is
\* asked.
CleanWithLLM(reply) ==
    /\ fpc = "llm"
    /\ reply = NoReply <=> ~SentToLLM(llm_enabled, returned.markdown)
    /\ llm_reply' = reply
    /\ fetches' = IF reply = NoReply THEN fetches ELSE fetches \cup {<<"openai", call.url>>}
    /\ returned' = [returned EXCEPT !.markdown = clean_content(llm_enabled, @, reply)]
    /\ fpc' = "store"
    /\ UNCHANGED <<alone_vars, environment, cache, pc, request, crawl_locals, tried, response,
                   llm_enabled, call, cached_result, zen, fetched, stored, expiry_vars>>

\* Lines 155-157: cache_set with the default TTL; fails tells that the
\* store raised.
StoreInCache(fails) ==
    /\ fpc = "store"
    /\ fails => redis_client
    /\ IF fails \/ ~redis_client
          THEN /\ stored' = FALSE
               /\ UNCHANGED <<cache, expires>>
          ELSE /\ stored' = TRUE
               /\ cache' = cache_set(Live(cache, expires, clock), CallKey, returned)
               /\ expires' = [k \in DOMAIN cache' |->
                                 IF k = CallKey THEN clock + TtlOrDefault(NoTtl) ELSE expires[k]]
    /\ cache_failed' = IF fails THEN cache_failed \cup {"set"} ELSE cache_failed
    /\ fpc' = "returned"
    /\ UNCHANGED <<alone_vars, environment, fetches, pc, request, crawl_locals, tried, response,
                   llm_enabled, call, cached_result, zen, fetched, llm_reply, returned,
                   clock, cache_call, written, ncalls>>

\* routes.py lines 61-69 and 92: the route answers with what scrape_url
\* returned.
Respond ==
    /\ fpc = "returned"
    /\ call.route # "crawl"
    /\ response' = [code |-> 200, error |-> "",
                    report |-> IF call.route = "preview" THEN returned
                               ELSE SinglePageReport(call.url, returned)]
    /\ fpc' = "responded"
    /\ UNCHANGED <<alone_vars, environment, cache, fetches, pc, request, crawl_locals, tried,
                   llm_enabled, call, cached_result, zen, fetched, llm_reply, returned, stored,
                   expiry_vars>>

\* What scrape_url gives for the page at url when the proxy succeeds.
ByProxy(s, url) == build_response(url, zenrows_scrape(s, url, ""))

\* What an earlier call can have stored for the page at url: what the proxy
\* made of it, else what the plain request made of it, else nothing.
StoredBefore(s, url) ==
    IF ProxyPage[s][url].success THEN {ByProxy(s, url)}
    ELSE IF HttpPage[s][url].success THEN {build_response(url, HttpPage[s][url])}
    ELSE {}

\* The stores earlier calls can have left behind: nothing, the home page
\* scraped with no option set, a page scraped with llmFilter set and cleaned.
FetchStores ==
    {<< >>}
    \cup {cache_set(<< >>, get_cache_key(base, PreviewOptions), r) : r \in StoredBefore(site, base)}
    \cup {cache_set(<< >>, get_cache_key(PageA, [PreviewOptions EXCEPT !.llmFilter = TRUE]),
                    [r EXCEPT !.markdown = "# Cleaned"]) : r \in StoredBefore(site, PageA)}

FetchInit ==
    /\ site \in PageSites
    /\ use_zenrows \in BOOLEAN
    /\ redis_client \in BOOLEAN
    /\ llm_enabled \in BOOLEAN
    /\ cache \in FetchStores
    /\ ServerStarted
    /\ ValidatorOff
    /\ call = NoCall
    /\ fpc = "idle"
    /\ cached_result = None
    /\ zen = NoFetch
    /\ fetched = NoFetch
    /\ llm_reply = NoReply
    /\ returned = None
    /\ stored = FALSE
    /\ ExpiryOff
    /\ KeyOff
    /\ SitemapOff

FetchSteps ==
    \/ \E fails \in BOOLEAN : LookUpCache(fails)
    \/ \E reason \in ProxyFailures \cup {""} : TryZenrows(reason)
    \/ \E reason \in HttpFailures \cup {""} : FallBack(reason)
    \/ BuildResponse
    \/ \E reply \in LLMReplies \cup {NoReply} : CleanWithLLM(reply)
    \/ \E fails \in BOOLEAN : StoreInCache(fails)
    \/ Respond

FetchNext ==
    \/ \E raw \in RequestUrls : PreviewRejected(raw)
    \/ \E raw \in RequestUrls : Preview(raw)
    \/ \E raw \in RequestUrls, options \in PageOptions : ScrapePage(raw, options)
    \/ \E url \in UnitUrls, options \in PageOptions : SubmitUnit(url, options)
    \/ FetchSteps

SpecFetch == FetchInit /\ [][FetchNext]_vars

(***************************************************************************)
(* cache.py called directly, time passing between the calls, and a preview *)
(* served on the store the calls have left.                                *)
(***************************************************************************)

\* The most direct calls and waits of a behaviour.
MaxCalls == 3

\* The key, the values and the TTLs of the direct calls, and how long a
\* wait lasts.
DirectKey == get_cache_key(base, PreviewOptions)
DirectValues == {ByProxy("mesh", base), ByProxy("mesh", PageA)}
Ttls == {NoTtl, <<0>>, <<1>>}
Waits == {1, CACHE_TTL - 1, CACHE_TTL}

\* Redis SETEX refuses a time that is not positive: redis_client.setex raises.
SetexRaises(ttl) == ttl <= 0

\* The store without the entry of key.
Without(store, key) == [k \in DOMAIN store \ {key} |-> store[k]]

\* cache_set(key, value, ttl); fails tells that the store raised.
CacheSet(key, value, ttl, fails) ==
    LET raises == fails \/ SetexRaises(TtlOrDefault(ttl))
        ret == redis_client /\ ~raises
    IN  /\ fpc = "idle"
        /\ ncalls < MaxCalls
        /\ fails => redis_client
        /\ IF ret
              THEN /\ cache' = cache_set(Live(cache, expires, clock), key, value)
                   /\ expires' = [k \in DOMAIN cache' |->
                                     IF k = key THEN clock + TtlOrDefault(ttl) ELSE expires[k]]
              ELSE UNCHANGED <<cache, expires>>
        /\ cache_call' = [op |-> "set", key |-> key, at |-> clock, failed |-> raises,
                          ret |-> ret]
        /\ written' = [k \in DOMAIN written \cup {key} |->
                          IF k = key
                              THEN [op |-> "set", value |-> value, ttl |-> ttl, at |-> clock,
                                    failed |-> fails]
                              ELSE written[k]]
        /\ ncalls' = ncalls + 1
        /\ UNCHANGED <<alone_vars, environment, fetches, pc, request, crawl_locals, tried, response,
                       fetch_vars, clock, cache_failed>>

\* cache_get(key); fails tells that the store raised.
CacheGet(key, fails) ==
    /\ fpc = "idle"
    /\ ncalls < MaxCalls
    /\ fails => redis_client
    /\ cache_call' = [op |-> "get", key |-> key, at |-> clock, failed |-> fails,
                      ret |-> cache_get_now(key, fails)]
    /\ ncalls' = ncalls + 1
    /\ UNCHANGED <<alone_vars, crawl_vars, fetch_vars, clock, expires, cache_failed,
                   written>>

\* cache_delete(key); fails tells that the store raised.
CacheDelete(key, fails) ==
    LET ret == redis_client /\ ~fails
    IN  /\ fpc = "idle"
        /\ ncalls < MaxCalls
        /\ fails => redis_client
        /\ IF ret
              THEN /\ cache' = Without(Live(cache, expires, clock), key)
                   /\ expires' = [k \in DOMAIN cache' |-> expires[k]]
              ELSE UNCHANGED <<cache, expires>>
        /\ cache_call' = [op |-> "delete", key |-> key, at |-> clock, failed |-> fails,
                          ret |-> ret]
        /\ written' = [k \in DOMAIN written \cup {key} |->
                          IF k = key
                              THEN [op |-> "delete", value |-> None, ttl |-> NoTtl, at |-> clock,
                                    failed |-> fails]
                              ELSE written[k]]
        /\ ncalls' = ncalls + 1
        /\ UNCHANGED <<alone_vars, environment, fetches, pc, request, crawl_locals, tried, response,
                       fetch_vars, clock, cache_failed>>

\* d seconds pass; Redis drops the entries that expire.
Wait(d) ==
    /\ fpc = "idle"
    /\ ncalls < MaxCalls
    /\ clock' = clock + d
    /\ cache' = Live(cache, expires, clock')
    /\ expires' = [k \in DOMAIN cache' |-> expires[k]]
    /\ ncalls' = ncalls + 1
    /\ UNCHANGED <<alone_vars, environment, fetches, pc, request, crawl_locals, tried, response,
                   fetch_vars, cache_failed, cache_call, written>>

CacheInit ==
    /\ site = "mesh"
    /\ use_zenrows = FALSE
    /\ redis_client \in BOOLEAN
    /\ llm_enabled = FALSE
    /\ cache = << >>
    /\ ServerStarted
    /\ ValidatorOff
    /\ call = NoCall
    /\ fpc = "idle"
    /\ cached_result = None
    /\ zen = NoFetch
    /\ fetched = NoFetch
    /\ llm_reply = NoReply
    /\ returned = None
    /\ stored = FALSE
    /\ ExpiryOff
    /\ KeyOff
    /\ SitemapOff

CacheNext ==
    \/ \E value \in DirectValues, ttl \in Ttls, fails \in BOOLEAN :
          CacheSet(DirectKey, value, ttl, fails)
    \/ \E fails \in BOOLEAN : CacheGet(DirectKey, fails)
    \/ \E fails \in BOOLEAN : CacheDelete(DirectKey, fails)
    \/ \E d \in Waits : Wait(d)
    \/ Preview(base)
    \/ \E fails \in BOOLEAN : LookUpCache(fails)
    \/ \E reason \in {"", "Connection refused"} : FallBack(reason)
    \/ BuildResponse
    \/ \E fails \in BOOLEAN : StoreInCache(fails)
    \/ Respond

SpecCache == CacheInit /\ [][CacheNext]_vars

(***************************************************************************)
(* _get_cache_key called on its own, on two (url, options) at a time       *)
(***************************************************************************)

\* URLs with and without '|', some ending in what the options append.
KeyUrls ==
    {base, PageA, PipedUrl, PageA \o "|detailed", PageA \o "|detailed|llm", "a|b"}

KeyOptions ==
    {[NoRequest.options EXCEPT !.enableDetailedResponse = d, !.llmFilter = l] :
        d \in BOOLEAN, l \in BOOLEAN}

KeyArgs == [url : KeyUrls, options : KeyOptions]

KeyInit ==
    /\ key_args \in KeyArgs \X KeyArgs
    /\ keys = << >>
    /\ ServerOff
    /\ ValidatorOff
    /\ FetchOff
    /\ ExpiryOff
    /\ SitemapOff

\* scraper.py lines 233-242 on each of the two: the string that is hashed
\* and the key returned.
DeriveKeys ==
    /\ keys = << >>
    /\ keys' = [i \in 1..2 |->
                   [key_string |-> Join(key_parts(key_args[i].url, key_args[i].options), "|"),
                    key |-> get_cache_key(key_args[i].url, key_args[i].options)]]
    /\ UNCHANGED <<validator_vars, crawl_vars, fetch_vars, expiry_vars, sitemap_vars, key_args>>

KeyNext == DeriveKeys

SpecKey == KeyInit /\ [][KeyNext]_vars

(***************************************************************************)
(* The robots.txt files and the sitemap documents a site can serve         *)
(***************************************************************************)

SmMain == "https://example.com/sitemap.xml"
SmIndex == "https://example.com/sitemap_index.xml"
SmDeep == "https://example.com/sitemap/sitemap.xml"
SmNews == "https://example.com/news.xml"

\* A <loc> with text, an entry without <loc>, and a <loc> without text.
Loc(text) == [kind |-> "text", text |-> text]
NoLoc == [kind |-> "missing", text |-> ""]
EmptyLoc == [kind |-> "empty", text |-> ""]

Unreachable == [status |-> 0, xml |-> FALSE, sitemaps |-> << >>, urls |-> << >>]
NotFound == [status |-> 404, xml |-> FALSE, sitemaps |-> << >>, urls |-> << >>]
NotXml == [status |-> 200, xml |-> FALSE, sitemaps |-> << >>, urls |-> << >>]
UrlSet(entries) == [status |-> 200, xml |-> TRUE, sitemaps |-> << >>, urls |-> entries]
SitemapIndex(entries) == [status |-> 200, xml |-> TRUE, sitemaps |-> entries, urls |-> << >>]

\* A URL set with a repeated entry, an entry to strip, a foreign host and a
\* PDF; one with an entry that cannot be read between two that can.
MixedSet == UrlSet(<<Loc(PageA), Loc(" " \o PageB \o "\n"), Loc(PageA), Loc(OtherHostUrl), Loc(PdfUrl)>>)
BrokenSet == UrlSet(<<Loc(PageC), EmptyLoc, Loc(PageD)>>)

MainDocs == {Unreachable, NotXml, MixedSet, BrokenSet}
IndexDocs ==
    {NotFound,
     SitemapIndex(<<Loc(SmMain), Loc(SmNews)>>),
     SitemapIndex(<<Loc(SmIndex), Loc(SmNews)>>),
     SitemapIndex(<<NoLoc, EmptyLoc, Loc(SmNews), Loc(SmMain)>>)}
NewsDocs ==
    {Unreachable,
     UrlSet(<<Loc(base), Loc(PageB), Loc(PageC), Loc(PageD)>>),
     UrlSet(<<NoLoc, Loc(PageA)>>)}
DeepDocs == {NotFound, UrlSet(<<Loc(PageD)>>)}

\* robots.txt: the request raises, 404, no Sitemap line, a Sitemap line
\* with nothing after the colon, one Sitemap line, two in other cases and
\* spacings.
RobotsFiles ==
    {[status |-> 0, text |-> ""],
     [status |-> 404, text |-> "Not Found"],
     [status |-> 200, text |-> "User-agent: *\nDisallow: /admin"],
     [status |-> 200, text |-> "User-agent: *\nSitemap:\nDisallow: /admin"],
     [status |-> 200, text |-> "User-agent: *\nSitemap: " \o SmIndex \o "\n"],
     [status |-> 200, text |-> "sitemap:" \o SmMain \o " \nDisallow: /x\nSITEMAP:   " \o SmNews]}

\* What the HEAD requests of the three conventional paths are answered; 0
\* is a request that raises.
HeadStatuses == {<<404, 404, 404>>, <<200, 200, 404>>, <<0, 200, 404>>, <<404, 0, 200>>}

\* The base URLs SitemapParser is made with.
BaseUrls == {base, PageA}

Webs ==
    {[base_url |-> b, robots |-> r, heads |-> h,
      docs |-> (SmMain :> m) @@ (SmIndex :> x) @@ (SmNews :> n) @@ (SmDeep :> d)] :
        b \in BaseUrls, r \in RobotsFiles, h \in HeadStatuses,
        m \in MainDocs, x \in IndexDocs, n \in NewsDocs, d \in DeepDocs}

\* Every text of a <loc> of a URL set, and what the lines 93-94 make of it
\* on a site of each domain: loc.text.strip() and _is_valid_url.
AllDocs == MainDocs \cup IndexDocs \cup NewsDocs \cup DeepDocs
LocTexts == UNION {{d.urls[i].text : i \in 1..Len(d.urls)} : d \in AllDocs}
Stripped == [text \in LocTexts |-> Strip(text)]
Domain == [b \in BaseUrls |-> urlparse(b).netloc]
IsValidUrl ==
    [b \in BaseUrls |-> [text \in LocTexts |-> sitemap_is_valid_url(Domain[b], Stripped[text])]]

(***************************************************************************)
(* sitemap.py in detail: robots.txt, the conventional paths, sitemap       *)
(* indexes and URL sets, each of which can fail                            *)
(***************************************************************************)

\* What a function has done when it ends or is left by an exception: the
\* value it has built, the exception on its way out ("" for none), what it
\* has printed and the sitemap URLs it has sent a GET for.
Done(value, printed_so_far) ==
    [value |-> value, raised |-> "", printed |-> printed_so_far, gets |-> << >>]
Raise(value, printed_so_far, exception) ==
    [value |-> value, raised |-> exception, printed |-> printed_so_far, gets |-> << >>]

\* try: ... except Exception as e: print(message + str(e)), left as written
\* in the three functions that swallow nothing.
ExceptNothing(outcome, message) == outcome

\* try: ... except Exception as e: print(f"{message}{e}")
except_Exception(outcome, message) ==
    IF outcome.raised = "" THEN outcome
    ELSE [outcome EXCEPT !.raised = "",
                         !.printed = Append(outcome.printed, message \o outcome.raised)]

\* The first position at or after i of text that holds none of chars, or
\* Len(text) + 1.
RECURSIVE SkipChars(_, _, _)
SkipChars(text, chars, i) ==
    IF i > Len(text) \/ CharAt(text, i) \notin chars THEN i
    ELSE SkipChars(text, chars, i + 1)

\* The last position in lo..hi of text that does not hold a newline, or 0.
RECURSIVE LastOnLine(_, _, _)
LastOnLine(text, lo, hi) ==
    IF hi < lo THEN 0
    ELSE IF CharAt(text, hi) # "\n" THEN hi
    ELSE LastOnLine(text, lo, hi - 1)

\* re.findall(r'sitemap:\s*(.+)', text, re.IGNORECASE) from position i on:
\* after 'sitemap:' the whitespace is skipped, newlines included, and the
\* group is the rest of the line reached; when only whitespace follows up
\* to the end of the text, the group is what the search finds on backing
\* up: the text from the last character that is not a newline.
RECURSIVE findall_sitemap(_, _)
findall_sitemap(text, i) ==
    IF i + 7 > Len(text) THEN << >>
    ELSE IF ~OccursAt(LowerStr(text), "sitemap:", i) THEN findall_sitemap(text, i + 1)
    ELSE LET after == i + 8
             word == SkipChars(text, Whitespace, after)
             start == IF word <= Len(text) THEN word ELSE LastOnLine(text, after, Len(text))
             stop == FindFirst(text, {"\n"}, start)
         IN  IF start = 0 THEN findall_sitemap(text, i + 1)
             ELSE <<SubSeq(text, start, stop - 1)>> \o findall_sitemap(text, stop)

\* Lines 52-56.
common_paths == <<"/sitemap.xml", "/sitemap_index.xml", "/sitemap/sitemap.xml">>

\* Lines 40-46: the body of the try of _find_sitemaps. A status of 0 is a
\* request that raised.
read_robots(robots) ==
    IF robots.status = 0 THEN Raise(<< >>, << >>, "Connection refused")
    ELSE IF robots.status = 200
        THEN LET matches == findall_sitemap(robots.text, 1)
             IN  Done([k \in 1..Len(matches) |-> Strip(matches[k])], << >>)
    ELSE Done(<< >>, << >>)

\* The try of lines 40-48 on each robots.txt, and the three conventional
\* paths joined to each base URL (line 58).
RobotsRead ==
    [robots \in RobotsFiles |->
        except_Exception(read_robots(robots), "Error fetching robots.txt: ")]
CommonUrls == [b \in BaseUrls |-> [i \in 1..Len(common_paths) |-> urljoin(b, common_paths[i])]]

\* Lines 57-65: the first of the paths from the i-th on whose HEAD request
\* is answered 200; a request that raises is passed over.
RECURSIVE probe_common_paths(_, _)
probe_common_paths(w, i) ==
    IF i > Len(common_paths) THEN << >>
    ELSE IF w.heads[i] = 200 THEN <<CommonUrls[w.base_url][i]>>
    ELSE probe_common_paths(w, i + 1)

\* SitemapParser._find_sitemaps
find_sitemaps(w) ==
    LET fetched_robots == RobotsRead[w.robots]
    IN  IF fetched_robots.raised # "" \/ fetched_robots.value # << >> THEN fetched_robots
        ELSE Done(probe_common_paths(w, 1), fetched_robots.printed)

\* What the site answers to a GET of a sitemap URL: the document of that
\* URL, and no answer at all for any other string.
Get(w, sitemap_url) ==
    IF sitemap_url \in DOMAIN w.docs THEN w.docs[sitemap_url] ELSE Unreachable

\* Lines 30 and 84: max_urls - len(urls), with no regard for what has been
\* collected.
RemainingIgnoringUrls(max_urls, urls) == max_urls

\* Lines 30 and 84: max_urls - len(urls)
Remaining(max_urls, urls) == max_urls - Cardinality(urls)

\* sys.getrecursionlimit(), scaled down: the number of frames of
\* _parse_sitemap the interpreter allows before a call raises
\* RecursionError.
RecursionLimit == 3

\* Lines 88-95: the loop over the <url> elements from the i-th on. An
\* element without <loc> is passed over; a <loc> without text has
\* loc.text = None, on which strip() raises.
RECURSIVE url_entries(_, _, _, _, _)
url_entries(base_url, entries, i, max_urls, acc) ==
    IF i > Len(entries) THEN acc
    ELSE IF Cardinality(acc.value) >= max_urls THEN acc
    ELSE IF entries[i].kind = "missing" THEN url_entries(base_url, entries, i + 1, max_urls, acc)
    ELSE IF entries[i].kind = "empty"
        THEN [acc EXCEPT !.raised = "'NoneType' object has no attribute 'strip'"]
    ELSE LET url == Stripped[entries[i].text]
         IN  url_entries(base_url, entries, i + 1, max_urls,
                 IF IsValidUrl[base_url][entries[i].text]
                     THEN [acc EXCEPT !.value = acc.value \cup {url}]
                 ELSE acc)

\* SitemapParser._parse_sitemap in the frame numbered depth, and lines 81-85
\* in it: the loop over the <sitemap> elements from the i-th on, each parsed
\* by a call of _parse_sitemap on loc.text with what remains of max_urls.
RECURSIVE parse_sitemap_url(_, _, _, _), nested_sitemaps(_, _, _, _, _, _)
nested_sitemaps(w, entries, i, max_urls, depth, acc) ==
    IF i > Len(entries) THEN acc
    ELSE IF entries[i].kind = "missing" \/ Cardinality(acc.value) >= max_urls
        THEN nested_sitemaps(w, entries, i + 1, max_urls, depth, acc)
    ELSE IF depth >= RecursionLimit
        THEN [acc EXCEPT !.raised = "maximum recursion depth exceeded"]
    ELSE LET nested == parse_sitemap_url(w, entries[i].text,
                                         Remaining(max_urls, acc.value), depth + 1)
             after == [acc EXCEPT !.printed = acc.printed \o nested.printed,
                                  !.gets = acc.gets \o nested.gets]
         IN  IF nested.raised # "" THEN [after EXCEPT !.raised = nested.raised]
             ELSE nested_sitemaps(w, entries, i + 1, max_urls, depth,
                      [after EXCEPT !.value = acc.value \cup nested.value])

parse_sitemap_url(w, sitemap_url, max_urls, depth) ==
    LET doc == Get(w, sitemap_url)
        sent == [Done({}, << >>) EXCEPT
                    !.gets = IF sitemap_url \in DOMAIN w.docs THEN <<sitemap_url>> ELSE << >>]
        body ==
            IF doc.status = 0 THEN [sent EXCEPT !.raised = "Connection refused"]
            ELSE IF doc.status # 200 THEN sent
            ELSE IF ~doc.xml THEN [sent EXCEPT !.raised = "syntax error: line 1, column 0"]
            ELSE LET indexed == nested_sitemaps(w, doc.sitemaps, 1, max_urls, depth, sent)
                 IN  IF indexed.raised # "" THEN indexed
                     ELSE url_entries(w.base_url, doc.urls, 1, max_urls, indexed)
    IN  except_Exception(body, "Error parsing sitemap " \o sitemap_url \o ": ")

\* list(all_urls): the elements of the set in each of the orders its hash
\* table can give them.
Orders(urls) ==
    {order \in [1..Cardinality(urls) -> urls] : Range(order) = urls}

(***************************************************************************)
(* get_urls_from_sitemap called on its own, on a site whose robots.txt     *)
(* and sitemaps are drawn from the documents below                         *)
(***************************************************************************)

\* The largest max_urls the calls are given.
MaxUrls == 3

SitemapInit ==
    /\ web \in Webs
    /\ max_urls_arg \in 1..MaxUrls
    /\ spc = "find"
    /\ sitemap_urls = << >>
    /\ parsed = 0
    /\ all_urls = {}
    /\ printed = << >>
    /\ listed = << >>
    /\ sitemap_gets = << >>
    /\ ServerOff
    /\ ValidatorOff
    /\ FetchOff
    /\ ExpiryOff
    /\ KeyOff

\* Lines 24-25: sitemap_urls = self._find_sitemaps(); all_urls = set([base_url])
FindSitemaps ==
    /\ spc = "find"
    /\ LET found == find_sitemaps(web)
       IN  /\ printed' = printed \o found.printed
           /\ IF found.raised # ""
                  THEN /\ spc' = "raised"
                       /\ UNCHANGED <<sitemap_urls, all_urls>>
              ELSE /\ spc' = "parse"
                   /\ sitemap_urls' = found.value
                   /\ all_urls' = {web.base_url}
    /\ UNCHANGED <<validator_vars, crawl_vars, fetch_vars, expiry_vars, key_vars,
                   web, max_urls_arg, parsed, listed, sitemap_gets>>

\* Lines 27-31: one turn of the loop over sitemap_urls.
ParseSitemap ==
    /\ spc = "parse"
    /\ parsed < Len(sitemap_urls)
    /\ Cardinality(all_urls) < max_urls_arg
    /\ LET urls == parse_sitemap_url(web, sitemap_urls[parsed + 1],
                                     Remaining(max_urls_arg, all_urls), 1)
       IN  /\ printed' = printed \o urls.printed
           /\ sitemap_gets' = sitemap_gets \o urls.gets
           /\ IF urls.raised # ""
                  THEN /\ spc' = "raised"
                       /\ UNCHANGED <<parsed, all_urls>>
              ELSE /\ parsed' = parsed + 1
                   /\ all_urls' = all_urls \cup urls.value
                   /\ UNCHANGED spc
    /\ UNCHANGED <<validator_vars, crawl_vars, fetch_vars, expiry_vars, key_vars,
                   web, max_urls_arg, sitemap_urls, listed>>

\* Line 33, once the loop has ended or has met its break:
\* return list(all_urls)[:max_urls]
ReturnUrls(order) ==
    /\ spc = "parse"
    /\ parsed = Len(sitemap_urls) \/ Cardinality(all_urls) >= max_urls_arg
    /\ listed' = Take(order, max_urls_arg)
    /\ spc' = "returned"
    /\ UNCHANGED <<validator_vars, crawl_vars, fetch_vars, expiry_vars, key_vars,
                   web, max_urls_arg, sitemap_urls, parsed, all_urls, printed, sitemap_gets>>

SitemapNext ==
    \/ FindSitemaps
    \/ ParseSitemap
    \/ \E order \in Orders(all_urls) : ReturnUrls(order)

SpecSitemap == SitemapInit /\ [][SitemapNext]_vars

(***************************************************************************)
(* Claims about the crawl (checked under Spec)                             *)
(***************************************************************************)

\* A report has come back from scrape_website.
CrawlReported == response.code = 200 /\ crawl_subpages

\* C1: in a multi-page crawl no URL is submitted to the pool twice, the
\* set of scheduled URLs never has more than maxPages elements, and a link
\* that passed the membership and size tests still passes them when it is
\* inserted, whatever the workers did in between.
C1_FrontierAtomic ==
    /\ \A i, j \in 1..Len(future_to_url) : future_to_url[i] = future_to_url[j] => i = j
    /\ Cardinality(discovered_urls) <= max_pages
    /\ pc = "add" => (link \notin discovered_urls /\ Cardinality(discovered_urls) < max_pages)

\* The last free place is about to be taken by a link, after a link to a
\* seed was refused, while a unit of work has yet to end.
C1_Witness ==
    /\ pc = "add"
    /\ Cardinality(discovered_urls) = max_pages - 1
    /\ \E i \in 1..Len(future_to_url) : fstate[i] = "pending"
    /\ \E k \in (1..Len(result.links)) \ todo :
           result.links[k] \in Range(Seeds(request.url, request.options))

\* C2: the results of the report of a multi-page crawl hold each URL at
\* most once and are at most maxPages.
C2_ResultsDistinctAndBounded ==
    CrawlReported
        => LET rs == response.report.results
           IN  /\ \A i, j \in 1..Len(rs) : rs[i].url = rs[j].url => i = j
               /\ Len(rs) <= max_pages

\* C3: when scrape_website returns, every unit of work submitted is done
\* and has exactly one entry in the results, so that totalPages is the size
\* of the set of scheduled URLs.
C3_EveryUnitReported ==
    CrawlReported
        => LET rs == response.report.results
           IN  /\ \A i \in 1..Len(future_to_url) :
                      /\ fstate[i] = "finished"
                      /\ Cardinality({j \in 1..Len(rs) : rs[j].url = future_to_url[i]}) = 1
               /\ response.report.totalPages = Cardinality(discovered_urls)

C5_FailureReportedOnce ==
    CrawlReported
        => LET rs == response.report.results
           IN  \A i \in 1..Len(future_to_url) :
                   /\ fstate[i] = "finished"
                   /\ fresult[i].status \in {"error", "raised"}
                          => Cardinality({j \in 1..Len(rs) :
                                 rs[j].url = future_to_url[i] /\ rs[j].status = "error"}) = 1

\* is_valid_url of every URL that can be scheduled, worked out once.
Accepted == [u \in Urls |-> is_valid_url(u)]

\* C6: every fetch issued, through the proxy or by plain HTTP, is for a URL
\* the validator accepts.
C6_OnlyValidatedFetched ==
    \A f \in fetches : Accepted[f[2]]

\* The host of every URL of the model, and whether the URL is absolute,
\* worked out once.
HostOf == [u \in Urls |-> urlparse(u).netloc]
IsAbsolute == [u \in Urls |-> urlparse(u).scheme # "" /\ urlparse(u).netloc # ""]

\* The links of a result for the page at url are absolute, on the page's
\* host, and each is there once.
LinksResolved(url, links) ==
    /\ \A k \in 1..Len(links) : IsAbsolute[links[k]] /\ HostOf[links[k]] = HostOf[url]
    /\ \A j, k \in 1..Len(links) : links[j] = links[k] => j = k

\* C13: the links of every successful result, whichever strategy produced
\* it, are absolute URLs on the host of the page, each listed once; and
\* every URL a crawl schedules is on the host of the base URL.
C13_LinksResolvedOnHost ==
    /\ \A i \in 1..Len(fresult) :
          fresult[i].status = "success" => LinksResolved(fresult[i].url, fresult[i].links)
    /\ \A i \in 1..Len(future_to_url) :
          IsAbsolute[future_to_url[i]] /\ HostOf[future_to_url[i]] = HostOf[request.url]

\* What the call of scrape_url numbered i returned: the result of the
\* future in a crawl, the one result of the report otherwise.
ResultOfCall(i) ==
    IF i \in DOMAIN fresult THEN fresult[i] ELSE response.report.results[1]

\* The call numbered i has ended.
Completed(i) == IF i \in DOMAIN fstate THEN fstate[i] = "finished" ELSE pc = "responded"

\* The URLs whose calls have ended.
CompletedUrls ==
    IF future_to_url = << >> THEN (IF pc = "responded" THEN {request.url} ELSE {})
    ELSE {future_to_url[i] : i \in {j \in DOMAIN future_to_url : fstate[j] = "finished"}}

\* C24: every call of scrape_url tries the proxy before the plain request
\* and each at most once; it starts with the plain request only without an
\* API key, and goes on to it after the proxy only when the proxy gave no
\* success, so that nothing is tried after a success; and once a call has
\* ended, the strategies it tried are settled and no step of the crawl
\* fetches its URL again.
C24_StrategiesInOrderOnce ==
    /\ [](\A i \in DOMAIN tried :
             /\ tried[i] \in {<< >>, <<"zenrows">>, <<"http">>, <<"zenrows", "http">>}
             /\ tried[i] = <<"http">> => ~use_zenrows
             /\ tried[i] = <<"zenrows", "http">> /\ Completed(i) =>
                   ResultOfCall(i).via # "zenrows")
    /\ [][/\ \A i \in DOMAIN tried :
                Completed(i) => i \in DOMAIN tried' /\ tried'[i] = tried[i]
          /\ \A f \in fetches' \ fetches : f[2] \notin CompletedUrls]_vars

\* A crawl has returned in which one call got the page from the proxy and
\* another from the plain request after the proxy failed.
C24_Witness ==
    /\ pc = "responded"
    /\ \E i, j \in DOMAIN fresult :
          /\ tried[i] = <<"zenrows">> /\ fresult[i].via = "zenrows"
          /\ tried[j] = <<"zenrows", "http">> /\ fresult[j].via = "http"

(***************************************************************************)
(* Claims about one call of scrape_url (checked under SpecFetch)           *)
(***************************************************************************)

\* scrape_url has returned.
Returned == fpc \in {"returned", "responded"} /\ returned # None

\* The proxy was tried and failed: zenrows_scrape gave a failure reason.
ProxyFailed == zen.error \notin {"", NoFetch.error}

\* What the plain request makes of the page of the call, as a response.
ByPlainHttp == build_response(call.url, simple_request(site, call.url, ""))

\* The markdown the cleaner can make of a text.
CleanedOrNot(text) == {text} \cup {clean_content(TRUE, text, reply) : reply \in LLMReplies}

\* C11: when the proxy failed and the plain request succeeded, scrape_url
\* returns status success; and a success returned after a failure of the
\* proxy is built of the plain request's output alone: its title, links,
\* url and description are those of the plain request, its markdown is the
\* plain request's text or what the cleaner made of it, it has no error
\* field and the proxy's failure reason occurs nowhere in it.
C11_FallbackResultOnly ==
    (Returned /\ ProxyFailed /\ cached_result = None) =>
        /\ fetched.success => returned.status = "success"
        /\ returned.status = "success" =>
              /\ DOMAIN returned = DOMAIN ByPlainHttp
              /\ [returned EXCEPT !.markdown = ""] = [ByPlainHttp EXCEPT !.markdown = ""]
              /\ returned.markdown \in CleanedOrNot(ByPlainHttp.markdown)
              /\ ~Contains(returned.markdown, zen.error)
              /\ ~Contains(returned.title, zen.error)

\* The proxy failed, the plain request was sent and succeeded, the cleaner
\* was asked, and the route answered with a success.
C11_Witness ==
    /\ fpc = "responded"
    /\ ProxyFailed
    /\ <<"http", call.url>> \in fetches
    /\ llm_reply # NoReply
    /\ returned.status = "success"

\* Every strategy that was tried has failed: nothing came of the cache and
\* no strategy gave a result.
AllFailed == Returned /\ cached_result = None /\ fetched = NoFetch

\* C12: when every strategy that was tried has failed, scrape_url returns a
\* result with status error, and its error string holds the failure reason
\* of each strategy that was tried: that of the proxy when the proxy was
\* tried, and that of the plain request.
C12_EveryReasonReported ==
    AllFailed =>
        /\ returned.status = "error"
        /\ \E reason \in HttpReasons \cup {MissingSchema} : Contains(returned.error, reason)
        /\ ProxyFailed => Contains(returned.error, zen.error)

\* The API was asked and did not give a content: requests.post raised, the
\* status is not 200, or the body is not what clean_content reads.
CleaningFailed == llm_reply # NoReply /\ (llm_reply.status # 200 \/ llm_reply.malformed)

\* C19: scrape_url calls the LLM cleaner only when options.llmFilter is set
\* and an API key is configured; and when the cleaning call fails (an
\* exception of the request, a status other than 200, a malformed body), the
\* markdown of the result is the uncleaned markdown, unchanged, and the
\* result has status success.
C19_CleanerOptionalAndHarmless ==
    /\ fpc = "llm" \/ llm_reply # NoReply \/ <<"openai", call.url>> \in fetches
          => call.options.llmFilter /\ llm_enabled
    /\ CleaningFailed =>
          /\ returned.markdown = build_response(call.url, fetched).markdown
          /\ returned.status = "success"

\* scrape_url has returned after the API answered 429 to the cleaner.
C19_Witness ==
    /\ Returned
    /\ call.options.llmFilter
    /\ llm_reply.status = 429
    /\ <<"openai", call.url>> \in fetches
    /\ returned.markdown = fetched.text

\* C20: a request to /scrape/preview uses no caching: what it returns was
\* not read from the cache, and it writes no entry, so that the cache holds
\* after the request what it held before.
C20_PreviewUsesNoCache ==
    /\ [](call.route = "preview" => cached_result = None)
    /\ [][call.route = "preview" => cache' = cache]_vars

\* The elements around the paragraph whose text the markdown shows.
NoiseTags == {"header", "nav", "aside", "footer", "script", "style", "noscript"}
Shown(markdown) == {tag \in NoiseTags : Contains(markdown, NoiseText(site, tag))}

\* The names of the elements of a page.
RECURSIVE TagsOf(_)
TagsOf(elements) ==
    IF elements = << >> THEN {}
    ELSE {Head(elements).tag} \cup TagsOf(Head(elements).children) \cup TagsOf(Tail(elements))

\* scrape_url has returned what it made of the page itself: not an entry of
\* the cache, and not the answer of the cleaner.
ReturnedExtract ==
    Returned /\ returned.status = "success" /\ cached_result = None /\ llm_reply = NoReply

\* C21: the markdown scrape_url makes of a page never shows the content of
\* script, style or noscript; with enableDetailedResponse false it shows
\* nothing of nav, footer, aside and header either, and with
\* enableDetailedResponse true it shows those the page has; whichever
\* strategy fetched the page.
C21_NoiseRemovedUnlessDetailed ==
    ReturnedExtract =>
        /\ Shown(returned.markdown) \cap {"script", "style", "noscript"} = {}
        /\ ~call.options.enableDetailedResponse =>
              Shown(returned.markdown) \cap {"nav", "footer", "aside", "header"} = {}
        /\ call.options.enableDetailedResponse =>
              TagsOf(Body(site, call.url)) \cap {"nav", "footer", "aside", "header"}
                  \subseteq Shown(returned.markdown)

\* More than 50 of the first 500 characters of the text are control
\* characters other than tab, carriage return and line feed.
Garbled(text) ==
    Cardinality({i \in 1..Min(Len(text), 500) :
                    CharAt(text, i) \in ControlChars \ {"\t", "\r", "\n"}}) > 50

\* Whether the visible text each strategy takes of a page is garbled.
GarbledPages ==
    [s \in PageSites |-> [u \in Urls |->
        [zenrows |-> Garbled(zenrows_text(Body(s, u))),
         http |-> Garbled(fallback_text(Body(s, u)))]]]

\* The proxy was asked and delivered the page.
ProxyDelivered == zen # NoFetch /\ zen.error \notin ProxyFailures

\* scrape_url has returned after the plain request delivered the page.
HttpDelivered ==
    /\ Returned /\ cached_result = None /\ ~zen.success
    /\ returned.status = "error" =>
          \A reason \in HttpFailures \cup {MissingSchema} : ~Contains(returned.error, reason)

\* C22: a strategy that is delivered a page whose text is garbled has
\* failed, and one that is delivered a text that is not garbled has not:
\* after a garbled text the proxy reports no success, scrape_url goes on to
\* the plain request and returns nothing made of the proxy's page; after a
\* garbled text of the plain request, the last strategy, scrape_url returns
\* an error result that tells so.
C22_GarbledTextFailsTheFetch ==
    /\ ProxyDelivered =>
          /\ zen.success <=> ~GarbledPages[site][call.url].zenrows
          /\ ~zen.success =>
                /\ zen.error = GarbledByProxy
                /\ fpc # "fallback" => <<"http", call.url>> \in fetches \/ ~CanSend[call.url]
                /\ Returned /\ returned.status = "success" => returned = ByPlainHttp \/ llm_reply # NoReply
    /\ HttpDelivered =>
          IF GarbledPages[site][call.url].http
              THEN returned = all_failed(call.url, GarbledByHttp)
              ELSE returned.status = "success"

\* The proxy and then the plain request were delivered a garbled page, and
\* scrape_url has returned the error.
C22_Witness ==
    /\ Returned
    /\ zen.error = GarbledByProxy
    /\ <<"http", call.url>> \in fetches
    /\ returned = all_failed(call.url, GarbledByHttp)

\* The proxy was delivered a page with 50 control characters in the first
\* 500 characters of its text and one behind, and scrape_url has returned
\* the page.
C22_WitnessAtThreshold ==
    /\ Returned
    /\ site = "edge"
    /\ zen.success
    /\ returned.status = "success"

\* The lookup of the call found an entry.
CacheHit == cached_result # None

\* scrape_url has returned a page it fetched after the lookup found nothing.
ReturnedFetched == Returned /\ ~CacheHit /\ returned.status = "success"

\* The cache holds what scrape_url returned under the key of the call's
\* URL and options.
HeldUnderKey ==
    LET key == get_cache_key(call.url, call.options)
    IN  key \in DOMAIN cache /\ json_loads(cache[key]) = returned

\* After a hit scrape_url returns the entry, and from the hit on nothing is
\* fetched, the cleaner is not asked and the cache is not written.
HitShortCircuits ==
    /\ [](Returned /\ CacheHit =>
             /\ returned = cached_result
             /\ fetches = {}
             /\ llm_reply = NoReply
             /\ ~stored)
    /\ [][CacheHit' => cache' = cache /\ fetches' = fetches]_vars

C23_WitnessHit == Returned /\ CacheHit /\ returned = cached_result

\* C26: every entry of the cache holds a result with status success: a call
\* of scrape_url that returns an error has written nothing, and what a
\* lookup finds is a success, so that a URL that failed is looked up in
\* vain and fetched again by the next call.
C26_OnlySuccessesCached ==
    /\ \A key \in DOMAIN cache : json_loads(cache[key]).status = "success"
    /\ CacheHit => cached_result.status = "success"
    /\ Returned /\ returned.status = "error" =>
          /\ ~stored
          /\ cache \in FetchStores

\* scrape_url has returned an error with Redis up, and the cache holds
\* nothing under the key of the call.
C26_Witness ==
    /\ Returned
    /\ returned.status = "error"
    /\ redis_client
    /\ "get" \notin cache_failed
    /\ CallKey \notin DOMAIN cache

(***************************************************************************)
(* Claims about the cache (checked under SpecCache)                        *)
(***************************************************************************)

\* The last direct call was a cache_get that the store answered, of a key
\* whose last cache_set or cache_delete the store had answered too.
AnsweredGet ==
    /\ redis_client
    /\ cache_call.op = "get"
    /\ ~cache_call.failed
    /\ cache_call.key \in DOMAIN written
    /\ ~written[cache_call.key].failed

\* The TTL a cache_set was called with, 3600 s when none was given; a TTL
\* is a number of seconds Redis takes as an expiry, 1 at least.
GivenTtl(ttl) == IF ttl = NoTtl THEN CACHE_TTL ELSE ttl[1]
IsDuration(ttl) == ttl = NoTtl \/ ttl[1] >= 1

WithEmptyCache ==
    IF fetched.success
        THEN {[build_response(call.url, fetched) EXCEPT
                 !.markdown = IF call.options.llmFilter
                                  THEN clean_content(llm_enabled, @, llm_reply) ELSE @]}
        ELSE {all_failed(call.url, reason) : reason \in HttpReasons \cup {MissingSchema}}

\* C15: without a Redis client, or when the store raises in a call,
\* cache_get returns None and cache_set and cache_delete return False;
\* scrape_url then finds nothing cached, stores nothing, and returns what it
\* returns with an empty cache, and the route answers 200 with that result.
C15_CacheFailureSilent ==
    /\ (cache_call.op # "" /\ (~redis_client \/ cache_call.failed)) =>
          /\ cache_call.op = "get" => cache_call.ret = None
          /\ cache_call.op \in {"set", "delete"} => cache_call.ret = FALSE
    /\ (~redis_client \/ "get" \in cache_failed) => cached_result = None
    /\ (~redis_client \/ "set" \in cache_failed) => stored = FALSE
    /\ (Returned /\ (~redis_client \/ cache_failed # {})) =>
          /\ returned \in WithEmptyCache
          /\ fpc = "responded" =>
                /\ response.code = 200
                /\ call.route = "preview" => response.report = returned

\* A direct call has failed, cache_get and cache_set have raised in
\* scrape_url, and the preview has been answered with a success.
C15_Witness ==
    /\ cache_call.failed
    /\ cache_failed = {"get", "set"}
    /\ fpc = "responded"
    /\ returned.status = "success"

(***************************************************************************)
(* Claims about the cache key (checked under SpecKey)                      *)
(***************************************************************************)

\* The two calls were given the same URL and the same two flags.
SameTriple ==
    /\ key_args[1].url = key_args[2].url
    /\ key_args[1].options.enableDetailedResponse = key_args[2].options.enableDetailedResponse
    /\ key_args[1].options.llmFilter = key_args[2].options.llmFilter

\* C16: _get_cache_key gives equal (URL, detailedResponse, llmFilter)
\* triples the same key, and gives two triples that differ in the URL or
\* in either flag different strings to hash, whatever the URL holds, '|',
\* a trailing '|detailed' or a trailing '|llm' included.
C16_KeysTellTriplesApart ==
    keys # << >> =>
        /\ SameTriple => keys[1].key = keys[2].key
        /\ ~SameTriple => keys[1].key_string # keys[2].key_string

(***************************************************************************)
(* Claims about sitemap discovery (checked under SpecSitemap)              *)
(***************************************************************************)

\* get_urls_from_sitemap has returned its list.
Listed == spc = "returned"

\* C17: whatever the base URL, max_urls >= 1, robots.txt and the sitemap
\* documents, get_urls_from_sitemap returns a list without duplicates that
\* holds the base URL and at most max_urls elements; all_urls never grows
\* beyond max_urls, and a call of _parse_sitemap on a sitemap of the site,
\* index or not, never returns more than the budget it is given.
C17_ListedWithinBudget ==
    /\ Cardinality(all_urls) <= max_urls_arg
    /\ \A k \in 1..Len(sitemap_urls), budget \in 1..max_urls_arg :
          Cardinality(parse_sitemap_url(web, sitemap_urls[k], budget, 1).value) <= budget
    /\ Listed =>
          /\ Cardinality(Range(listed)) = Len(listed)
          /\ web.base_url \in Range(listed)
          /\ Len(listed) <= max_urls_arg

\* A list of three has come back from an index whose two sitemaps hold
\* more valid URLs than the budget of the nested calls.
C17_Witness ==
    /\ Listed
    /\ max_urls_arg = 3
    /\ Len(listed) = 3
    /\ sitemap_urls = <<SmIndex>>
    /\ web.docs[SmIndex] = SitemapIndex(<<Loc(SmMain), Loc(SmNews)>>)
    /\ web.docs[SmMain] = MixedSet
    /\ web.docs[SmNews] = UrlSet(<<Loc(base), Loc(PageB), Loc(PageC), Loc(PageD)>>)

\* The valid URLs of a URL set that stand before its first <loc> without
\* text.
RECURSIVE UrlsBeforeFailure(_, _, _)
UrlsBeforeFailure(base_url, entries, i) ==
    IF i > Len(entries) \/ entries[i].kind = "empty" THEN {}
    ELSE (IF entries[i].kind = "text" /\ IsValidUrl[base_url][entries[i].text]
              THEN {Stripped[entries[i].text]} ELSE {})
         \cup UrlsBeforeFailure(base_url, entries, i + 1)

\* The loop of get_urls_from_sitemap takes a URL set that is served.
TakesUrlSet ==
    /\ spc = "parse"
    /\ parsed' = parsed + 1
    /\ LET doc == Get(web, sitemap_urls[parsed + 1])
       IN  doc.status = 200 /\ doc.xml /\ doc.sitemaps = << >>

\* C18: no failure in sitemap discovery (robots.txt not fetched, a probe of
\* a conventional path raising, a sitemap not fetched, XML that does not
\* parse, an entry that cannot be read) leaves get_urls_from_sitemap by an
\* exception: it returns what it has accumulated, the base URL at least;
\* what is collected is never lost to a later failure, and the URLs of a
\* sitemap that stand before its unreadable entry are collected when the
\* budget allows.
C18_FailuresKeepUrls ==
    /\ [](spc # "raised")
    /\ [](Listed => Range(listed) = all_urls /\ web.base_url \in all_urls)
    /\ [][/\ all_urls \subseteq all_urls'
          /\ TakesUrlSet =>
                LET before == UrlsBeforeFailure(web.base_url,
                                                Get(web, sitemap_urls[parsed + 1]).urls, 1)
                IN  Cardinality(before) <= Remaining(max_urls_arg, all_urls)
                        => before \subseteq all_urls']_vars

\* The list has come back although the first sitemap of robots.txt holds an
\* unreadable entry and the second one cannot be fetched: the page listed
\* before the unreadable entry is in it.
C18_Witness ==
    /\ Listed
    /\ sitemap_urls = <<SmMain, SmNews>>
    /\ web.docs[SmMain] = BrokenSet
    /\ web.docs[SmNews] = Unreachable
    /\ Len(printed) = 2
    /\ PageC \in Range(listed)
    /\ web.base_url \in Range(listed)

\* How often _parse_sitemap has sent a GET for the sitemap URL u.
GetsOf(u) == Cardinality({k \in DOMAIN sitemap_gets : sitemap_gets[k] = u})

\* The sitemap index of the site lists itself.
IndexListsItself ==
    \E k \in DOMAIN web.docs[SmIndex].sitemaps : web.docs[SmIndex].sitemaps[k] = Loc(SmIndex)

\* C25: whatever the sitemap documents of the site refer to, a sitemap
\* index that lists itself included, it is the max_urls budget that ends
\* the descent of get_urls_from_sitemap and bounds its fetches: the
\* interpreter's recursion limit is never met, and no sitemap document is
\* fetched more often than max_urls.
C25_BudgetBoundsSitemapFetches ==
    /\ \A k \in DOMAIN printed : ~Contains(printed[k], "maximum recursion depth exceeded")
    /\ \A u \in DOMAIN web.docs : GetsOf(u) <= max_urls_arg

(***************************************************************************)
(* Claims about the validator (checked under SpecValidate)                 *)
(***************************************************************************)

\* The host component of an input: what stands after an optional
\* 'scheme://' and an optional 'userinfo@', up to a ':port', a path, a query
\* or a fragment; an IPv6 literal without its brackets; lower-cased.
InputHost(raw) ==
    LET t == sanitize_input(raw)
        colon == FindFirst(t, {":"}, 1)
        has_scheme ==
            colon > 1 /\ OccursAt(t, "://", colon) /\ AllIn(SubSeq(t, 1, colon - 1), SchemeChars)
        rest == IF has_scheme THEN SubSeq(t, colon + 3, Len(t)) ELSE t
        authority == SubSeq(rest, 1, FindFirst(rest, {"/", "?", "#"}, 1) - 1)
        hostport == SubSeq(authority, FindLast(authority, "@", Len(authority)) + 1, Len(authority))
    IN  LowerStr(IF StartsWith(hostport, "[")
                 THEN SubSeq(hostport, 2, FindFirst(hostport, {"]"}, 1) - 1)
                 ELSE SubSeq(hostport, 1, FindFirst(hostport, {":"}, 1) - 1))

\* The scheme an input carries before '://', lower-cased; "" when it
\* carries none.
InputScheme(raw) ==
    LET t == sanitize_input(raw)
        colon == FindFirst(t, {":"}, 1)
    IN  IF colon > 1 /\ OccursAt(t, "://", colon) /\ AllIn(SubSeq(t, 1, colon - 1), SchemeChars)
        THEN LowerStr(SubSeq(t, 1, colon - 1))
        ELSE ""

\* An IPv4 address in 10.0.0.0/8, 172.16.0.0/12 or 192.168.0.0/16.
IsPrivateIPv4(h) ==
    /\ IsIPv4(h)
    /\ LET parts == Split(h, ".")
           first == DecimalValue(parts[1])
           second == DecimalValue(parts[2])
       IN  \/ first = 10
           \/ first = 172 /\ second \in 16..31
           \/ first = 192 /\ second = 168

HostIsForbidden(h) == h \in {"localhost", "127.0.0.1", "0.0.0.0", "::1"} \/ IsPrivateIPv4(h)

\* C7: every input whose host component is localhost, 127.0.0.1, 0.0.0.0,
\* ::1 or a private IPv4 address is rejected by validate_and_sanitize_url
\* and by is_valid_url, whatever scheme, port, userinfo or path goes with it.
C7_ForbiddenHostRejected ==
    /\ (vpc # "ready" /\ HostIsForbidden(InputHost(input))) => verdict[1] = FALSE
    /\ (vpc = "routed" /\ HostIsForbidden(InputHost(input))) => route_ok = FALSE

\* The injection signatures, read on the lower-cased text.
HasInjectionSignature(text) ==
    LET t == LowerStr(text)
    IN  \/ \E w \in {"select", "insert", "update", "delete", "drop", "create",
                     "alter", "exec", "execute", "union", "declare"} : HasWord(t, w)
        \/ \E tok \in {"--", ";", "/*", "*/", "xp_", "sp_", "'", "||", "*"} : Contains(t, tok)
        \/ WordThenEquals(t, "or")
        \/ WordThenEquals(t, "and")
        \/ HasWord(t, "script")
        \/ Contains(t, "<script")
        \/ Contains(t, "javascript:")

\* C8: an input whose sanitized form holds an injection signature gets
\* (False, "", prohibited-pattern error), whatever its format.
C8_SignatureRejectedFirst ==
    (vpc # "ready" /\ HasInjectionSignature(sanitize_input(input)))
        => verdict = <<FALSE, "", ProhibitedError>>

\* A well-formed URL that holds a signature has been rejected for it.
C8_Witness ==
    /\ vpc = "validated"
    /\ HasInjectionSignature(sanitize_input(input))
    /\ is_valid_url(normalize_url(input))
    /\ verdict = <<FALSE, "", ProhibitedError>>

\* C9 as stated: an accepted input comes back as (True, u, "") with u the
\* input itself, 'https://' put before it when it starts with neither
\* http:// nor https://.
C9_InputReturnedUnchanged ==
    (vpc # "ready" /\ verdict[1])
        => verdict = <<TRUE, IF HasHttpScheme(input) THEN input ELSE "https://" \o input, "">>

\* C9 amended: an accepted input comes back as (True, u, "") with u the
\* sanitized input (NUL bytes removed, percent-decoded once, control
\* characters removed, trimmed), 'https://' put before it when the sanitized
\* input starts with neither http:// nor https://, and nothing put before
\* it otherwise.
C9_SanitizedInputReturned ==
    (vpc # "ready" /\ verdict[1])
        => LET t == sanitize_input(input)
           IN  /\ verdict[3] = ""
               /\ HasHttpScheme(t) => verdict[2] = t
               /\ ~HasHttpScheme(t) => verdict[2] = "https://" \o t

\* An input without a scheme, changed by sanitization, has been accepted.
C9_Witness ==
    /\ vpc = "validated"
    /\ verdict[1]
    /\ ~HasHttpScheme(sanitize_input(input))
    /\ sanitize_input(input) # input

\* The rejections C10 names: an empty input, a normalized form shorter than
\* 10 or longer than 2048 characters, a scheme (before '://') other than
\* http and https, a normalized form whose network location is missing or
\* shorter than 3 characters.
IsBadFormat(raw) ==
    \/ raw = ""
    \/ Len(normalize_url(raw)) < 10
    \/ Len(normalize_url(raw)) > 2048
    \/ InputScheme(raw) \notin {"", "http", "https"}
    \/ Len(urlparse(normalize_url(raw)).netloc) < 3

\* C10: each of these inputs is rejected, and every rejection returns ""
\* for the URL with a non-empty error.
C10_BadFormatRejected ==
    vpc # "ready"
        => /\ IsBadFormat(input) => verdict[1] = FALSE
           /\ verdict[1] = FALSE => (verdict[2] = "" /\ verdict[3] # "")

\* A URL that is well formed but for its length has been rejected.
C10_Witness ==
    /\ vpc = "validated"
    /\ Len(normalize_url(input)) > 2048
    /\ validators_url(normalize_url(input))
    /\ ~contains_sql_injection(sanitize_input(input))
    /\ verdict = <<FALSE, "", FormatError>>

====
